---- MODULE Spec2Model ----
(***************************************************************************)
(* A model of wt, the git-worktree environment isolation CLI: the slot     *)
(* allocator, the persisted allocation registry and the commands that      *)
(* read, change and write it.                                              *)
(*                                                                         *)
(* Strings the code converts (slot keys, the --slot option, remove         *)
(* targets, branch names) are sequences of one-character strings, so that  *)
(* String(), parseInt() and the slug replacement are computed, not assumed.*)
(***************************************************************************)
EXTENDS Integers, Sequences, FiniteSets, TLC

VARIABLES
    args,       \* inputs of the pure-function call under check
    ret,        \* its result, "none" before the call
    fs,         \* the registry file and its .tmp sibling
    worktrees,  \* the worktree directories on disk: path -> branch, env files
    databases,  \* the names of the databases the server holds
    last,       \* the last command run: its arguments and what it reported
    watch,      \* the commands whose runs are recorded in last
    procs,      \* the invocations that run step by step: where each stands
    history     \* what those invocations did to the registry file, in order

vars == <<args, ret, fs, worktrees, databases, last, watch, procs, history>>

world == <<fs, worktrees, databases>>

(***************************************************************************)
(* Bounds of the model.                                                    *)
(***************************************************************************)
MaxSlots == 2        \* config.maxSlots of the repository the commands run in
MaxSlotArg == 3      \* maxSlots drawn for the allocator ranges over 1..MaxSlotArg
MaxServices == 2     \* longest service list drawn
MaxStride == 3       \* config.portStride ranges over 1..MaxStride
MaxSpread == 2       \* defaultPort ranges over BasePort..BasePort+MaxSpread

BasePort == 3000

Range(f) == {f[x] : x \in DOMAIN f}

(***************************************************************************)
(* Decimal strings.                                                        *)
(***************************************************************************)
Digits == <<"0", "1", "2", "3", "4", "5", "6", "7", "8", "9">>

IsDigit(c) == \E i \in 1..10 : Digits[i] = c

DigitVal(c) == (CHOOSE i \in 1..10 : Digits[i] = c) - 1

\* JavaScript String(n) of an integer
RECURSIVE String(_)
String(n) ==
    IF n < 0 THEN <<"-">> \o String(0 - n)
    ELSE IF n < 10 THEN <<Digits[n + 1]>>
    ELSE String(n \div 10) \o <<Digits[(n % 10) + 1]>>

\* value of a sequence of digits, most significant first
RECURSIVE DigitsValue(_)
DigitsValue(ds) ==
    IF ds = <<>> THEN 0
    ELSE 10 * DigitsValue(SubSeq(ds, 1, Len(ds) - 1)) + DigitVal(ds[Len(ds)])

\* the longest prefix of s made of digits
RECURSIVE DigitPrefix(_)
DigitPrefix(s) ==
    IF s = <<>> \/ ~IsDigit(Head(s)) THEN <<>>
    ELSE <<Head(s)>> \o DigitPrefix(Tail(s))

RECURSIVE TrimStart(_)
TrimStart(s) ==
    IF s # <<>> /\ Head(s) = " " THEN TrimStart(Tail(s)) ELSE s

\* JavaScript parseInt(s, 10): leading blanks, an optional sign, then the
\* longest run of digits; NaN when there is no digit
parseInt(s) ==
    LET t == TrimStart(s)
        neg == t # <<>> /\ Head(t) = "-"
        u == IF t # <<>> /\ Head(t) \in {"-", "+"} THEN Tail(t) ELSE t
        ds == DigitPrefix(u)
    IN  IF ds = <<>> THEN [isNaN |-> TRUE, value |-> 0]
        ELSE [isNaN |-> FALSE,
              value |-> IF neg THEN 0 - DigitsValue(ds) ELSE DigitsValue(ds)]

(***************************************************************************)
(* Slot allocator.                                                         *)
(***************************************************************************)
\* the null that findAvailableSlot returns when no slot is free; slots are >= 1
null == -1

\* the map built by assigning ports[service.name] for each service in order:
\* a later service of the same name overwrites the earlier entry
RECURSIVE calculatePortsFrom(_, _, _, _)
calculatePortsFrom(ports, slot, services, stride) ==
    IF services = <<>> THEN ports
    ELSE LET service == Head(services)
             port == slot * stride + service.defaultPort
             names == DOMAIN ports \cup {service.name}
         IN  calculatePortsFrom(
                 [n \in names |-> IF n = service.name THEN port ELSE ports[n]],
                 slot, Tail(services), stride)

\* slot + stride + defaultPort in place of slot * stride + defaultPort
calculatePortsSum(slot, services, stride) ==
    LET shifted == [i \in 1..Len(services) |->
                       [name |-> services[i].name,
                        defaultPort |-> services[i].defaultPort + slot]]
    IN  calculatePortsFrom(<<>>, 1, shifted, stride)

calculatePorts(slot, services, stride) ==
    calculatePortsFrom(<<>>, slot, services, stride)

calculateDbName(slot, baseName) == baseName \o <<"_", "w", "t">> \o String(slot)

\* the loop of findAvailableSlot from a given slot on
RECURSIVE findAvailableSlotFrom(_, _, _)
findAvailableSlotFrom(slot, registry, maxSlots) ==
    IF slot > maxSlots THEN null
    ELSE IF String(slot) \notin DOMAIN registry.allocations THEN slot
    ELSE findAvailableSlotFrom(slot + 1, registry, maxSlots)

findAvailableSlotOffByOne(registry, maxSlots) ==
    findAvailableSlotFrom(1, registry, maxSlots - 1)

\* the first slot handed out again when none is free
findAvailableSlotWrap(registry, maxSlots) ==
    IF findAvailableSlotFrom(1, registry, maxSlots) = null THEN 1
    ELSE findAvailableSlotFrom(1, registry, maxSlots)

findAvailableSlot(registry, maxSlots) ==
    findAvailableSlotFrom(1, registry, maxSlots)

(***************************************************************************)
(* Paths (node:path, POSIX): a path is the sequence of its characters.     *)
(***************************************************************************)
\* the pieces of s between separators; "a//b" has an empty piece
RECURSIVE SplitFrom(_, _, _)
SplitFrom(s, sep, piece) ==
    IF s = <<>> THEN <<piece>>
    ELSE IF Head(s) = sep THEN <<piece>> \o SplitFrom(Tail(s), sep, <<>>)
    ELSE SplitFrom(Tail(s), sep, Append(piece, Head(s)))

Split(s, sep) == SplitFrom(s, sep, <<>>)

\* the segments of a path with "", "." and ".." resolved
RECURSIVE NormalizeSegments(_, _)
NormalizeSegments(segs, acc) ==
    IF segs = <<>> THEN acc
    ELSE LET seg == Head(segs)
         IN  IF seg = <<>> \/ seg = <<".">>
                 THEN NormalizeSegments(Tail(segs), acc)
             ELSE IF seg = <<".", ".">>
                 THEN NormalizeSegments(Tail(segs),
                          IF acc = <<>> THEN acc ELSE SubSeq(acc, 1, Len(acc) - 1))
             ELSE NormalizeSegments(Tail(segs), Append(acc, seg))

RECURSIVE JoinSegments(_)
JoinSegments(segs) ==
    IF segs = <<>> THEN <<>> ELSE <<"/">> \o Head(segs) \o JoinSegments(Tail(segs))

\* the working directory of every invocation: the main worktree
cwd == <<"/", "r">>

\* path.resolve(p), and path.resolve(a, b) as pathResolve(a \o "/" \o b)
pathResolve(p) ==
    LET abs == IF p # <<>> /\ Head(p) = "/" THEN p ELSE cwd \o <<"/">> \o p
        segs == NormalizeSegments(Split(abs, "/"), <<>>)
    IN  IF segs = <<>> THEN <<"/">> ELSE JoinSegments(segs)

\* path.join(a, b) of an absolute a
pathJoin(a, b) == pathResolve(a \o <<"/">> \o b)

(***************************************************************************)
(* Configuration (wt.config.json) and the repository.                      *)
(***************************************************************************)
config ==
    [baseDatabaseName |-> <<"a", "p", "p">>,
     baseWorktreePath |-> <<"w">>,
     portStride |-> 100,
     maxSlots |-> MaxSlots,
     services |-> <<[name |-> "app", defaultPort |-> BasePort],
                    [name |-> "server", defaultPort |-> BasePort + 1]>>,
     envFiles |-> <<[source |-> ".env"]>>,
     postSetup |-> <<"install">>,
     autoInstall |-> TRUE]

\* getMainWorktreePath()
mainRoot == <<"/", "r">>

(***************************************************************************)
(* Registry store.                                                         *)
(***************************************************************************)
createEmptyRegistry == [version |-> 1, allocations |-> <<>>]

addAllocation(registry, slot, allocation) ==
    [registry EXCEPT !.allocations =
        [k \in DOMAIN registry.allocations \cup {String(slot)} |->
            IF k = String(slot) THEN allocation ELSE registry.allocations[k]]]

\* a filter that keeps every entry
removeAllocationKeepAll(registry, slot) == registry

\* a filter that keeps no entry
removeAllocationAll(registry, slot) == [registry EXCEPT !.allocations = <<>>]

removeAllocation(registry, slot) ==
    [registry EXCEPT !.allocations =
        [k \in DOMAIN registry.allocations \ {String(slot)} |->
            registry.allocations[k]]]

\* The same two functions on the heap, where a registry is an object that
\* refers to its allocations object, which refers to the allocation objects:
\* the heap is the sequence of its objects, a reference is an index into it.
\* An object literal is a new object at the end of the heap.

\* registry.allocations[String(slot)] = allocation; return registry
addAllocationInPlace(heap, registry, slot, allocation) ==
    LET allocations == heap[registry].allocations
    IN  [heap |-> [heap EXCEPT ![allocations] =
                      [k \in DOMAIN heap[allocations] \cup {String(slot)} |->
                          IF k = String(slot) THEN allocation
                          ELSE heap[allocations][k]]],
         value |-> registry]

\* { ...registry, allocations: { ...registry.allocations, [String(slot)]: allocation } }
addAllocationOnHeap(heap, registry, slot, allocation) ==
    LET allocations == heap[registry].allocations
        inner == Append(heap,
                     [k \in DOMAIN heap[allocations] \cup {String(slot)} |->
                         IF k = String(slot) THEN allocation
                         ELSE heap[allocations][k]])
        outer == Append(inner, [heap[registry] EXCEPT !.allocations = Len(inner)])
    IN  [heap |-> outer, value |-> Len(outer)]

\* delete registry.allocations[String(slot)]; return registry
removeAllocationInPlace(heap, registry, slot) ==
    LET allocations == heap[registry].allocations
    IN  [heap |-> [heap EXCEPT ![allocations] =
                      [k \in DOMAIN heap[allocations] \ {String(slot)} |->
                          heap[allocations][k]]],
         value |-> registry]

\* rest = Object.fromEntries(Object.entries(...).filter(...));
\* { ...registry, allocations: rest }
removeAllocationOnHeap(heap, registry, slot) ==
    LET allocations == heap[registry].allocations
        rest == Append(heap,
                    [k \in DOMAIN heap[allocations] \ {String(slot)} |->
                        heap[allocations][k]])
        outer == Append(rest, [heap[registry] EXCEPT !.allocations = Len(rest)])
    IN  [heap |-> outer, value |-> Len(outer)]

\* the registry value an object of the heap denotes
Deref(heap, registry) ==
    [version |-> heap[registry].version,
     allocations |->
         [k \in DOMAIN heap[heap[registry].allocations] |->
             heap[heap[heap[registry].allocations][k]]]]

\* a key that is a canonical array index ("0", "7", "12", not "01")
IsIndexKey(k) ==
    /\ k # <<>>
    /\ \A i \in 1..Len(k) : IsDigit(k[i])
    /\ String(DigitsValue(k)) = k

\* Object.keys order: index keys ascending by value come first. The other
\* keys follow in insertion order, which a registry value does not record;
\* they are put by length, then by value.
KeyRank(k) ==
    IF IsIndexKey(k) THEN DigitsValue(k)
    ELSE 1000000 + 1000 * Len(k) + parseInt(k).value

RECURSIVE KeysInOrder(_)
KeysInOrder(keys) ==
    IF keys = {} THEN <<>>
    ELSE LET k == CHOOSE x \in keys : \A y \in keys : KeyRank(x) <= KeyRank(y)
         IN  <<k>> \o KeysInOrder(keys \ {k})

\* Number(slotStr) of a key made of digits
Number(k) == DigitsValue(k)

\* the loop of findByPath over Object.entries: the first entry whose resolved
\* path is the resolved worktreePath; <<>> stands for null
RECURSIVE findByPathIn(_, _, _)
findByPathIn(allocations, keys, resolved) ==
    IF keys = <<>> THEN <<>>
    ELSE IF pathResolve(allocations[Head(keys)].worktreePath) = resolved
        THEN <<Number(Head(keys)), allocations[Head(keys)]>>
    ELSE findByPathIn(allocations, Tail(keys), resolved)

findByPath(registry, worktreePath) ==
    findByPathIn(registry.allocations, KeysInOrder(DOMAIN registry.allocations),
                 pathResolve(worktreePath))

(***************************************************************************)
(* The registry file.  A JSON document is the sequence of its tokens: the  *)
(* opening brace, the version member, one member per allocation, the       *)
(* closing brace.  A file cut short is a proper prefix of a document.      *)
(***************************************************************************)
RECURSIVE EntryTokens(_, _)
EntryTokens(allocations, keys) ==
    IF keys = <<>> THEN <<>>
    ELSE <<[t |-> "entry", key |-> Head(keys), value |-> allocations[Head(keys)]]>>
             \o EntryTokens(allocations, Tail(keys))

\* JSON.stringify(registry, null, 2) + '\n'
Serialize(registry) ==
    <<[t |-> "open"], [t |-> "version", value |-> registry.version]>>
        \o EntryTokens(registry.allocations, KeysInOrder(DOMAIN registry.allocations))
        \o <<[t |-> "close"]>>

\* allocationSchema
ValidAllocation(a) ==
    /\ a.worktreePath # <<>>
    /\ a.branchName # <<>>
    /\ a.dbName # <<>>
    /\ a.redisDb >= 1
    /\ \A n \in DOMAIN a.ports : a.ports[n] > 0
    /\ a.createdAt >= 0

\* the object a sequence of member tokens denotes: a repeated key keeps its
\* last value
RECURSIVE ObjectOf(_, _)
ObjectOf(tokens, acc) ==
    IF tokens = <<>> THEN acc
    ELSE LET e == Head(tokens)
         IN  ObjectOf(Tail(tokens),
                 [k \in DOMAIN acc \cup {e.key} |->
                     IF k = e.key THEN e.value ELSE acc[k]])

\* JSON.parse of the content, then registrySchema.parse
ParseRegistry(content) ==
    LET n == Len(content)
        wellFormed ==
            /\ n >= 3
            /\ content[1].t = "open"
            /\ content[2].t = "version"
            /\ content[n].t = "close"
            /\ \A i \in 3..(n - 1) : content[i].t = "entry"
        valid ==
            /\ wellFormed
            /\ content[2].value = 1
            /\ \A i \in 3..(n - 1) : ValidAllocation(content[i].value)
    IN  IF valid
            THEN [ok |-> TRUE,
                  registry |-> [version |-> 1,
                                allocations |-> ObjectOf(SubSeq(content, 3, n - 1), <<>>)]]
            ELSE [ok |-> FALSE, registry |-> createEmptyRegistry]

(***************************************************************************)
(* The registry file as the JSON value JSON.parse makes of it, which may   *)
(* have any shape: a value is tagged with its JSON type.  createdAt, which *)
(* a registry value holds as the clock reading t, is the text "T<t>Z" in   *)
(* the file.                                                               *)
(***************************************************************************)
JNumber(n) == [j |-> "number", num |-> n]

JString(s) == [j |-> "string", str |-> s]

\* a member that the object does not have
JAbsent == [j |-> "absent"]

\* an object of the members given, without those that are absent
JObject(f) ==
    [j |-> "object",
     members |-> [k \in {x \in DOMAIN f : f[x].j # "absent"} |-> f[k]]]

\* new Date().toISOString() of the clock reading t
toISOString(t) == <<"T">> \o String(t) \o <<"Z">>

\* z.string().datetime()
IsDateTime(s) ==
    /\ Len(s) >= 3
    /\ s[1] = "T"
    /\ s[Len(s)] = "Z"
    /\ IsIndexKey(SubSeq(s, 2, Len(s) - 1))

IsNonEmptyString(v) == v.j = "string" /\ v.str # <<>>

Has(object, key) == key \in DOMAIN object.members

AllocationFields ==
    {"worktreePath", "branchName", "dbName", "redisDb", "ports", "createdAt"}

\* allocationSchema.parse succeeds: z.object checks the members it names and
\* passes over the others
allocationSchemaOk(v) ==
    /\ v.j = "object"
    /\ AllocationFields \subseteq DOMAIN v.members
    /\ IsNonEmptyString(v.members.worktreePath)
    /\ IsNonEmptyString(v.members.branchName)
    /\ IsNonEmptyString(v.members.dbName)
    /\ v.members.redisDb.j = "number" /\ v.members.redisDb.num >= 1
    /\ v.members.ports.j = "object"
    /\ \A n \in DOMAIN v.members.ports.members :
           /\ v.members.ports.members[n].j = "number"
           /\ v.members.ports.members[n].num > 0
    /\ v.members.createdAt.j = "string" /\ IsDateTime(v.members.createdAt.str)

\* what allocationSchema.parse returns: the members the schema names
allocationSchemaValue(v) ==
    [worktreePath |-> v.members.worktreePath.str,
     branchName |-> v.members.branchName.str,
     dbName |-> v.members.dbName.str,
     redisDb |-> v.members.redisDb.num,
     ports |-> [n \in DOMAIN v.members.ports.members |->
                   v.members.ports.members[n].num],
     createdAt |-> DigitsValue(SubSeq(v.members.createdAt.str, 2,
                                      Len(v.members.createdAt.str) - 1))]

\* registrySchema.parse succeeds
registrySchemaOk(v) ==
    /\ v.j = "object"
    /\ Has(v, "version") /\ v.members.version = JNumber(1)
    /\ Has(v, "allocations") /\ v.members.allocations.j = "object"
    /\ \A k \in DOMAIN v.members.allocations.members :
           allocationSchemaOk(v.members.allocations.members[k])

\* registrySchema.parse: [ok, registry]; not ok when it throws
registrySchemaParse(v) ==
    IF registrySchemaOk(v)
        THEN [ok |-> TRUE,
              registry |->
                  [version |-> 1,
                   allocations |->
                       [k \in DOMAIN v.members.allocations.members |->
                           allocationSchemaValue(v.members.allocations.members[k])]]]
        ELSE [ok |-> FALSE, registry |-> createEmptyRegistry]

\* readRegistry of a root whose registry file, if there is one, parses as
\* the JSON value given
readRegistryJson(file) ==
    IF file.j = "absent" THEN [ok |-> TRUE, registry |-> createEmptyRegistry]
    ELSE registrySchemaParse(file)

\* the JSON value of JSON.stringify(registry)
allocationToJson(a) ==
    JObject([worktreePath |-> JString(a.worktreePath),
             branchName |-> JString(a.branchName),
             dbName |-> JString(a.dbName),
             redisDb |-> JNumber(a.redisDb),
             ports |-> JObject([n \in DOMAIN a.ports |-> JNumber(a.ports[n])]),
             createdAt |-> JString(toISOString(a.createdAt))])

registryToJson(registry) ==
    JObject([version |-> JNumber(registry.version),
             allocations |->
                 JObject([k \in DOMAIN registry.allocations |->
                             allocationToJson(registry.allocations[k])])])

(***************************************************************************)
(* The file system under the main worktree: the registry file and its .tmp *)
(* sibling.  A descriptor opened on a name follows the file when the name  *)
(* is renamed, and is left on an unlinked file when the name is replaced;  *)
(* it writes at its own offset.                                            *)
(***************************************************************************)
NoFile == [exists |-> FALSE, content |-> <<>>]

EmptyFs == [registry |-> NoFile, tmp |-> NoFile]

\* open(name, 'w'): the file is created, or emptied when it exists
FsOpenW(fsv, name) ==
    [fsv EXCEPT ![name] = [exists |-> TRUE, content |-> <<>>]]

\* what a file holds after a token is written at offset pos (from 1); bytes
\* never written below the offset read as a hole
WriteAt(content, pos, token) ==
    [i \in 1..(IF pos > Len(content) THEN pos ELSE Len(content)) |->
        IF i = pos THEN token
        ELSE IF i <= Len(content) THEN content[i]
        ELSE [t |-> "hole"]]

\* write(fd) of one token at the descriptor's offset
FsWrite(fsv, fd, pos, token) ==
    IF fd = "unlinked" THEN fsv
    ELSE [fsv EXCEPT ![fd].content = WriteAt(@, pos, token)]

RECURSIVE FsWriteAll(_, _, _, _)
FsWriteAll(fsv, fd, pos, tokens) ==
    IF tokens = <<>> THEN fsv
    ELSE FsWriteAll(FsWrite(fsv, fd, pos, Head(tokens)), fd, pos + 1, Tail(tokens))

\* a rename that does not replace a target that exists
FsRenameNoReplace(fsv, from, to) ==
    IF from = to THEN fsv
    ELSE IF fsv[to].exists THEN [fsv EXCEPT ![from] = NoFile]
    ELSE [fsv EXCEPT ![to] = fsv[from], ![from] = NoFile]

\* rename(from, to) of an existing file: one step, the old file of the
\* target name is gone; nothing happens when both names are one file
FsRename(fsv, from, to) ==
    IF from = to THEN fsv
    ELSE [fsv EXCEPT ![to] = fsv[from], ![from] = NoFile]

\* where a descriptor points after rename(from, to)
FdAfterRename(fd, from, to) ==
    IF from = to THEN fd
    ELSE IF fd = from THEN to
    ELSE IF fd = to THEN "unlinked"
    ELSE fd

\* registryPath(repoRoot)
filePath == "registry"

\* writing in place, with no file of its own for the new document
tmpPathInPlace == filePath

\* const tmpPath = `${filePath}.tmp`
tmpPath == "tmp"

\* readRegistry: [ok, registry]; not ok when the content does not parse
readRegistry(fsv) ==
    IF ~fsv[filePath].exists THEN [ok |-> TRUE, registry |-> createEmptyRegistry]
    ELSE ParseRegistry(fsv[filePath].content)

\* the document written to the temporary path and left there
writeRegistryNoRename(fsv, registry) ==
    FsWriteAll(FsOpenW(fsv, tmpPath), tmpPath, 1, Serialize(registry))

\* writeRegistry run to its end with no other process using the files
writeRegistry(fsv, registry) ==
    FsRename(FsWriteAll(FsOpenW(fsv, tmpPath), tmpPath, 1, Serialize(registry)),
             tmpPath, filePath)

(***************************************************************************)
(* The collaborators: git worktrees and the database server.  A world is   *)
(* [fs, worktrees, databases]; a call returns [ok, world] and, when it     *)
(* fails (throws), leaves the world as it found it.                        *)
(***************************************************************************)
Branches == {<<"a">>, <<"f", "/", "x">>}

\* branchName.replace(/\//g, '-')
RECURSIVE Slug(_)
Slug(b) ==
    IF b = <<>> THEN <<>>
    ELSE <<IF Head(b) = "/" THEN "-" ELSE Head(b)>> \o Slug(Tail(b))

basePath == pathJoin(mainRoot, config.baseWorktreePath)

WorktreePathOf(b) == pathResolve(basePath \o <<"/">> \o Slug(b))

WorktreePaths == {WorktreePathOf(b) : b \in Branches}

templateDatabase == config.baseDatabaseName

\* what a command may be told to fail at; "none" lets every call succeed
FailPoints ==
    {"none", "createWorktree", "getBranchName", "databaseExists",
     "createDatabase", "copyAndPatchAllEnvFiles", "postSetup"}

\* what the clock may read when an allocation is made
Times == {1}

\* createWorktree: git worktree add fails on a path that exists
createWorktree(w, branchName, fail) ==
    LET worktreePath == WorktreePathOf(branchName)
    IN  IF fail = "createWorktree" \/ worktreePath \in DOMAIN w.worktrees
            THEN [ok |-> FALSE, world |-> w, worktreePath |-> worktreePath]
            ELSE [ok |-> TRUE,
                  world |-> [w EXCEPT !.worktrees =
                      [p \in DOMAIN w.worktrees \cup {worktreePath} |->
                          IF p = worktreePath
                              THEN [branch |-> branchName, env |-> {}]
                              ELSE w.worktrees[p]]],
                  worktreePath |-> worktreePath]

\* getBranchName: git rev-parse in the worktree directory
getBranchName(w, worktreePath, fail) ==
    IF fail = "getBranchName" \/ worktreePath \notin DOMAIN w.worktrees
        THEN [ok |-> FALSE, branch |-> <<>>]
        ELSE [ok |-> TRUE, branch |-> w.worktrees[worktreePath].branch]

\* readDatabaseUrl and databaseExists
databaseExists(w, dbName, fail) ==
    IF fail = "databaseExists" THEN [ok |-> FALSE, exists |-> FALSE]
    ELSE [ok |-> TRUE, exists |-> dbName \in w.databases]

createDatabase(w, dbName, fail) ==
    IF fail = "createDatabase" \/ dbName \in w.databases
        THEN [ok |-> FALSE, world |-> w]
        ELSE [ok |-> TRUE, world |-> [w EXCEPT !.databases = @ \cup {dbName}]]

\* copyAndPatchAllEnvFiles: each configured file is written under the
\* worktree; env is the set of the files there
copyAndPatchAllEnvFiles(w, worktreePath, fail) ==
    IF fail = "copyAndPatchAllEnvFiles" \/ worktreePath \notin DOMAIN w.worktrees
        THEN [ok |-> FALSE, world |-> w]
        ELSE [ok |-> TRUE,
              world |-> [w EXCEPT !.worktrees[worktreePath].env =
                            @ \cup {config.envFiles[i].source :
                                        i \in 1..Len(config.envFiles)}]]

(***************************************************************************)
(* wt new                                                                  *)
(***************************************************************************)
\* options.slot when --slot is not given
undefined == <<"undefined">>

\* the explicit slot checked against 1 only, not against maxSlots
determineSlotNoUpperBound(registry, slotOption) ==
    IF slotOption # undefined
        THEN LET slot == parseInt(slotOption)
             IN  IF slot.isNaN \/ slot.value < 1
                     THEN [ok |-> FALSE, slot |-> null, error |-> "Invalid slot"]
                 ELSE IF String(slot.value) \in DOMAIN registry.allocations
                     THEN [ok |-> FALSE, slot |-> null, error |-> "Slot occupied"]
                 ELSE [ok |-> TRUE, slot |-> slot.value, error |-> ""]
        ELSE LET available == findAvailableSlot(registry, config.maxSlots)
             IN  IF available = null
                     THEN [ok |-> FALSE, slot |-> null, error |-> "All slots occupied"]
                     ELSE [ok |-> TRUE, slot |-> available, error |-> ""]

\* the slot of createNewWorktree: [ok, slot], not ok when it throws
determineSlot(registry, slotOption) ==
    IF slotOption # undefined
        THEN LET slot == parseInt(slotOption)
             IN  IF slot.isNaN \/ slot.value < 1 \/ slot.value > config.maxSlots
                     THEN [ok |-> FALSE, slot |-> null, error |-> "Invalid slot"]
                 ELSE IF String(slot.value) \in DOMAIN registry.allocations
                     THEN [ok |-> FALSE, slot |-> null, error |-> "Slot occupied"]
                 ELSE [ok |-> TRUE, slot |-> slot.value, error |-> ""]
        ELSE LET available == findAvailableSlot(registry, config.maxSlots)
             IN  IF available = null
                     THEN [ok |-> FALSE, slot |-> null, error |-> "All slots occupied"]
                     ELSE [ok |-> TRUE, slot |-> available, error |-> ""]

\* redisDb counted from the next slot
AllocationRedisNext(worktreePath, branchName, slot, now) ==
    [worktreePath |-> worktreePath,
     branchName |-> branchName,
     dbName |-> calculateDbName(slot, config.baseDatabaseName),
     redisDb |-> slot + 1,
     ports |-> calculatePorts(slot, config.services, config.portStride),
     createdAt |-> now]

Allocation(worktreePath, branchName, slot, now) ==
    [worktreePath |-> worktreePath,
     branchName |-> branchName,
     dbName |-> calculateDbName(slot, config.baseDatabaseName),
     redisDb |-> slot,
     ports |-> calculatePorts(slot, config.services, config.portStride),
     createdAt |-> now]

\* A command in progress is [world, registry, slot, worktreePath, branch,
\* error, postSetup, reused]: the world as it stands, the locals of the
\* command, and the error thrown, "" while none is.  A step of a command
\* that has thrown does nothing.
Begin(w) ==
    [world |-> w, registry |-> createEmptyRegistry, slot |-> null,
     worktreePath |-> <<>>, branch |-> <<>>, error |-> "",
     postSetup |-> FALSE, reused |-> FALSE]

Throw(st, error) == [st EXCEPT !.error = error]

\* let registry = readRegistry(mainRoot)
DoReadRegistry(st) ==
    IF st.error # "" THEN st
    ELSE LET read == readRegistry(st.world.fs)
         IN  IF read.ok THEN [st EXCEPT !.registry = read.registry]
             ELSE Throw(st, "registry")

\* "Determine slot" of createNewWorktree
DoDetermineSlot(st, slotOption) ==
    IF st.error # "" THEN st
    ELSE LET chosen == determineSlot(st.registry, slotOption)
         IN  IF chosen.ok THEN [st EXCEPT !.slot = chosen.slot]
             ELSE Throw(st, chosen.error)

\* const worktreePath = createWorktree(basePath, branchName)
DoCreateWorktree(st, branchName, fail) ==
    IF st.error # "" THEN st
    ELSE LET made == createWorktree(st.world, branchName, fail)
         IN  IF made.ok
                 THEN [st EXCEPT !.world = made.world,
                                 !.worktreePath = made.worktreePath]
                 ELSE Throw(st, "createWorktree")

\* getBranchName(worktreePath)
DoGetBranchName(st, fail) ==
    IF st.error # "" THEN st
    ELSE LET actual == getBranchName(st.world, st.worktreePath, fail)
         IN  IF actual.ok THEN [st EXCEPT !.branch = actual.branch]
             ELSE Throw(st, "getBranchName")

\* the database of the slot is created unless it exists
DoCreateDatabase(st, fail) ==
    IF st.error # "" THEN st
    ELSE LET dbName == calculateDbName(st.slot, config.baseDatabaseName)
             found == databaseExists(st.world, dbName, fail)
             created == createDatabase(st.world, dbName, fail)
         IN  IF ~found.ok THEN Throw(st, "databaseExists")
             ELSE IF found.exists THEN st
             ELSE IF created.ok THEN [st EXCEPT !.world = created.world]
             ELSE Throw(st, "createDatabase")

\* copyAndPatchAllEnvFiles(config, mainRoot, worktreePath, ...)
DoPatchEnvFiles(st, fail) ==
    IF st.error # "" THEN st
    ELSE LET patched == copyAndPatchAllEnvFiles(st.world, st.worktreePath, fail)
         IN  IF patched.ok THEN [st EXCEPT !.world = patched.world]
             ELSE Throw(st, "copyAndPatchAllEnvFiles")

\* the registry written whether or not an earlier step has thrown
DoWriteRegistryAlways(st, now) ==
    [st EXCEPT
        !.registry = addAllocation(@, st.slot,
                         Allocation(st.worktreePath, st.branch, st.slot, now)),
        !.world.fs = writeRegistry(@,
                         addAllocation(st.registry, st.slot,
                             Allocation(st.worktreePath, st.branch, st.slot, now)))]

\* registry = addAllocation(registry, slot, allocation); writeRegistry(...)
DoWriteRegistry(st, now) ==
    IF st.error # "" THEN st
    ELSE [st EXCEPT
             !.registry = addAllocation(@, st.slot,
                              Allocation(st.worktreePath, st.branch, st.slot, now)),
             !.world.fs = writeRegistry(@,
                              addAllocation(st.registry, st.slot,
                                  Allocation(st.worktreePath, st.branch, st.slot, now)))]

\* the post-setup commands, run when configured and asked for
DoPostSetup(st, install, fail) ==
    IF st.error # "" THEN st
    ELSE IF ~(config.autoInstall /\ install /\ config.postSetup # <<>>) THEN st
    ELSE IF fail = "postSetup"
        THEN [st EXCEPT !.postSetup = TRUE, !.error = "postSetup"]
    ELSE [st EXCEPT !.postSetup = TRUE]

\* the registry written before the env files are
createNewWorktreeWriteFirst(w, branchName, slotOption, install, fail, now) ==
    DoPostSetup(
        DoPatchEnvFiles(
            DoWriteRegistry(
                DoCreateDatabase(
                    DoGetBranchName(
                        DoCreateWorktree(
                            DoDetermineSlot(DoReadRegistry(Begin(w)), slotOption),
                            branchName, fail),
                        fail),
                    fail),
                now),
            fail),
        install, fail)

\* createNewWorktree, from the world it finds to the world it leaves
createNewWorktree(w, branchName, slotOption, install, fail, now) ==
    DoPostSetup(
        DoWriteRegistry(
            DoPatchEnvFiles(
                DoCreateDatabase(
                    DoGetBranchName(
                        DoCreateWorktree(
                            DoDetermineSlot(DoReadRegistry(Begin(w)), slotOption),
                            branchName, fail),
                        fail),
                    fail),
                fail),
            now),
        install, fail)

theWorld == [fs |-> fs, worktrees |-> worktrees, databases |-> databases]

SetWorld(w) ==
    /\ fs' = w.fs
    /\ worktrees' = w.worktrees
    /\ databases' = w.databases

\* A run of commands may end with one command, of those in watch, whose
\* arguments, report and starting world are recorded in last; the commands
\* before it leave last.cmd = "none".
Running == last.cmd = "none"

Report(record) ==
    /\ \E recorded \in (IF record.cmd \in watch THEN BOOLEAN ELSE {FALSE}) :
           last' = IF recorded THEN record ELSE [cmd |-> "none"]
    /\ UNCHANGED <<args, ret, watch, procs, history>>

\* the --slot texts tried: every slot of 0..MaxSlots+1, a text that is no
\* number and a number followed by a letter
SlotOptions ==
    {undefined} \cup {String(n) : n \in 0..(MaxSlots + 1)}
        \cup {<<"x">>, <<"1", "x">>}

\* newCommand
NewCommand ==
    /\ Running
    /\ \E branchName \in Branches, slotOption \in SlotOptions, install \in BOOLEAN,
          fail \in FailPoints, now \in Times :
        LET r == createNewWorktree(theWorld, branchName, slotOption, install,
                                   fail, now)
        IN  /\ SetWorld(r.world)
            /\ Report(
                    [cmd |-> "new", before |-> theWorld, branchName |-> branchName,
                     slotOption |-> slotOption, slot |-> r.slot,
                     error |-> r.error, postSetup |-> r.postSetup,
                     exitCode |-> IF r.error = "" THEN 0 ELSE 1])

(***************************************************************************)
(* wt setup                                                                *)
(***************************************************************************)
isMainWorktree(targetPath) == pathResolve(targetPath) = pathResolve(mainRoot)

\* const worktreePath = path.resolve(targetPath ?? process.cwd()), refused
\* when it is the main worktree
DoSetupPath(st, targetPath) ==
    LET worktreePath == pathResolve(IF targetPath = undefined THEN cwd
                                    ELSE targetPath)
    IN  IF isMainWorktree(worktreePath)
            THEN Throw([st EXCEPT !.worktreePath = worktreePath], "MAIN_WORKTREE")
            ELSE [st EXCEPT !.worktreePath = worktreePath]

\* a slot looked for without asking whether the path has one
DoSetupSlotAlwaysNew(st) ==
    IF st.error # "" THEN st
    ELSE LET available == findAvailableSlot(st.registry, config.maxSlots)
         IN  IF available = null THEN Throw(st, "NO_SLOTS")
             ELSE [st EXCEPT !.slot = available]

\* "Reuse existing allocation or allocate a new slot" of setupCommand
DoSetupSlot(st) ==
    IF st.error # "" THEN st
    ELSE LET existing == findByPath(st.registry, st.worktreePath)
             available == findAvailableSlot(st.registry, config.maxSlots)
         IN  IF existing # <<>>
                 THEN [st EXCEPT !.slot = existing[1], !.reused = TRUE]
             ELSE IF available = null THEN Throw(st, "NO_SLOTS")
             ELSE [st EXCEPT !.slot = available]

\* setupCommand, from the world it finds to the world it leaves
setupCommand(w, targetPath, install, fail, now) ==
    DoPostSetup(
        DoWriteRegistry(
            DoPatchEnvFiles(
                DoCreateDatabase(
                    DoGetBranchName(
                        DoSetupSlot(DoReadRegistry(DoSetupPath(Begin(w), targetPath))),
                        fail),
                    fail),
                fail),
            now),
        install, fail)

\* the paths given to setup: none, the main worktree, and each worktree
\* path in absolute form; the first also relative to the working directory
SetupTargets ==
    {undefined, mainRoot, config.baseWorktreePath \o <<"/", "a">>}
        \cup WorktreePaths

SetupCommand ==
    /\ Running
    /\ \E targetPath \in SetupTargets, install \in BOOLEAN,
          fail \in FailPoints \ {"createWorktree"}, now \in Times :
        LET r == setupCommand(theWorld, targetPath, install, fail, now)
        IN  /\ SetWorld(r.world)
            /\ Report(
                    [cmd |-> "setup", before |-> theWorld, targetPath |-> targetPath,
                     slot |-> r.slot, error |-> r.error, reused |-> r.reused,
                     postSetup |-> r.postSetup,
                     exitCode |-> IF r.error = "" THEN 0 ELSE 1])

(***************************************************************************)
(* wt remove                                                               *)
(***************************************************************************)
\* a drop that refuses no name
dropDatabaseAnyName(w, dbName, templateName, fails) ==
    IF fails THEN [ok |-> FALSE, world |-> w]
    ELSE [ok |-> TRUE, world |-> [w EXCEPT !.databases = @ \ {dbName}]]

\* dropDatabase: refuses the template, else DROP DATABASE IF EXISTS
dropDatabase(w, dbName, templateName, fails) ==
    IF dbName = templateName \/ fails THEN [ok |-> FALSE, world |-> w]
    ELSE [ok |-> TRUE, world |-> [w EXCEPT !.databases = @ \ {dbName}]]

\* removeWorktree: git worktree remove --force
removeWorktree(w, worktreePath, fails) ==
    IF fails \/ worktreePath \notin DOMAIN w.worktrees
        THEN [ok |-> FALSE, world |-> w]
        ELSE [ok |-> TRUE,
              world |-> [w EXCEPT !.worktrees =
                  [p \in DOMAIN w.worktrees \ {worktreePath} |-> w.worktrees[p]]]]

RECURSIVE TrimEnd(_)
TrimEnd(s) ==
    IF s # <<>> /\ s[Len(s)] = " " THEN TrimEnd(SubSeq(s, 1, Len(s) - 1)) ELSE s

Trim(s) == TrimEnd(TrimStart(s))

\* the sequences of a sequence of sequences, one after the other
RECURSIVE Flatten(_)
Flatten(ss) == IF ss = <<>> THEN <<>> ELSE Head(ss) \o Flatten(Tail(ss))

RECURSIVE DropEmpty(_)
DropEmpty(ss) ==
    IF ss = <<>> THEN <<>>
    ELSE (IF Head(ss) = <<>> THEN <<>> ELSE <<Head(ss)>>) \o DropEmpty(Tail(ss))

parseRemoveTargets(rawTargets) ==
    LET pieces == Flatten([i \in 1..Len(rawTargets) |-> Split(rawTargets[i], ",")])
    IN  DropEmpty([i \in 1..Len(pieces) |-> Trim(pieces[i])])

\* the slot a target of digits names, else null
parseSlotTarget(target) ==
    IF target # <<>> /\ \A i \in 1..Len(target) : IsDigit(target[i])
        THEN DigitsValue(target)
        ELSE null

Resolved(slot, allocation) ==
    [ok |-> TRUE, slot |-> slot, worktreePath |-> allocation.worktreePath,
     dbName |-> allocation.dbName]

NotResolved == [ok |-> FALSE, slot |-> null]

resolveSlot(registry, slot) ==
    IF String(slot) \notin DOMAIN registry.allocations THEN NotResolved
    ELSE Resolved(slot, registry.allocations[String(slot)])

resolveFound(found) ==
    IF found = <<>> THEN NotResolved ELSE Resolved(found[1], found[2])

resolveParsed(registry, target, slot) ==
    IF slot # null THEN resolveSlot(registry, slot)
    ELSE resolveFound(findByPath(registry, pathResolve(target)))

resolveTarget(registry, target) ==
    resolveParsed(registry, target, parseSlotTarget(target))

RemoveFailures == {"none", "dropDatabase", "removeWorktree"}

\* the try block of removeCommand's loop for a resolved target: the database
\* is dropped, then the worktree removed, then the entry taken out; fails is
\* the call that throws, if any
removeResolved(st, target, resolved, keepDb, fails) ==
    LET dropped == IF keepDb THEN [ok |-> TRUE, world |-> st.world]
                   ELSE dropDatabase(st.world, resolved.dbName, templateDatabase,
                                     fails = "dropDatabase")
        gone == IF resolved.worktreePath \in DOMAIN dropped.world.worktrees
                    THEN removeWorktree(dropped.world, resolved.worktreePath,
                                        fails = "removeWorktree")
                    ELSE [ok |-> TRUE, world |-> dropped.world]
    IN  IF ~dropped.ok THEN [st EXCEPT !.failed = Append(@, target)]
        ELSE IF ~gone.ok
            THEN [st EXCEPT !.failed = Append(@, target), !.world = dropped.world]
        ELSE [st EXCEPT !.registry = removeAllocation(@, resolved.slot),
                        !.world = gone.world,
                        !.removed = Append(@, [target |-> target,
                                               slot |-> resolved.slot])]

\* one round of the loop once the target is resolved
removeOne(st, target, resolved, keepDb, failure) ==
    IF ~resolved.ok THEN [st EXCEPT !.failed = Append(@, target)]
    ELSE IF resolved.slot \in st.seenSlots THEN st
    ELSE removeResolved([st EXCEPT !.seenSlots = @ \cup {resolved.slot},
                                   !.attempted = Append(@, resolved.slot)],
                        target, resolved, keepDb, failure[resolved.slot])

\* one round of removeCommand's loop over the targets. st is [registry,
\* world, seenSlots, removed, failed, attempted]; failure[slot] says which
\* call fails when the slot is removed.
removeTarget(st, target, keepDb, failure) ==
    removeOne(st, target, resolveTarget(st.registry, target), keepDb, failure)

RECURSIVE removeTargets(_, _, _, _)
removeTargets(st, targets, keepDb, failure) ==
    IF targets = <<>> THEN st
    ELSE removeTargets(removeTarget(st, Head(targets), keepDb, failure),
                       Tail(targets), keepDb, failure)

RemoveEnded(w, error, exitCode) ==
    [world |-> w, error |-> error, exitCode |-> exitCode, removed |-> <<>>,
     failed |-> <<>>, attempted |-> <<>>, wrote |-> FALSE]

\* the registry written whether or not something was removed
removeReportAlwaysWrites(st) ==
    [world |-> [st.world EXCEPT !.fs = writeRegistry(@, st.registry)],
     error |-> IF st.failed # <<>> THEN "REMOVE_PARTIAL" ELSE "",
     exitCode |-> IF st.failed # <<>> THEN 1 ELSE 0,
     removed |-> st.removed, failed |-> st.failed,
     attempted |-> st.attempted, wrote |-> TRUE]

\* what removeCommand does after the loop: the registry is written when
\* something was removed, the exit code is 1 when something failed
removeReport(st) ==
    [world |-> IF st.removed # <<>>
                   THEN [st.world EXCEPT !.fs = writeRegistry(@, st.registry)]
                   ELSE st.world,
     error |-> IF st.failed # <<>> THEN "REMOVE_PARTIAL" ELSE "",
     exitCode |-> IF st.failed # <<>> THEN 1 ELSE 0,
     removed |-> st.removed, failed |-> st.failed,
     attempted |-> st.attempted, wrote |-> st.removed # <<>>]

\* the targets of the loop
removeLoop(w, registry, targets, keepDb, failure) ==
    removeReport(removeTargets(
        [registry |-> registry, world |-> w, seenSlots |-> {},
         removed |-> <<>>, failed |-> <<>>, attempted |-> <<>>],
        targets, keepDb, failure))

removeParsed(w, read, parsedTargets, all, keepDb, failure) ==
    IF ~read.ok THEN RemoveEnded(w, "REMOVE_FAILED", 1)
    ELSE IF all /\ parsedTargets # <<>> THEN RemoveEnded(w, "INVALID_ARGS", 1)
    ELSE IF all
        THEN IF DOMAIN read.registry.allocations = {} THEN RemoveEnded(w, "", 0)
             ELSE removeLoop(w, read.registry,
                             KeysInOrder(DOMAIN read.registry.allocations),
                             keepDb, failure)
    ELSE IF parsedTargets = <<>> THEN RemoveEnded(w, "MISSING_TARGET", 1)
    ELSE removeLoop(w, read.registry, parsedTargets, keepDb, failure)

\* removeCommand, from the world it finds to the world it leaves
removeCommand(w, rawTargets, all, keepDb, failure) ==
    removeParsed(w, readRegistry(w.fs), parseRemoveTargets(rawTargets), all,
                 keepDb, failure)

MaxTargets == 2

\* the targets given to remove: every slot of 1..MaxSlots+1 and a relative
\* path, in lists of up to MaxTargets; a list in one argument; an absolute path
RawTargets ==
    {String(n) : n \in 1..(MaxSlots + 1)}
        \cup {config.baseWorktreePath \o <<"/", "a">>}

RawTargetLists ==
    UNION {[1..n -> RawTargets] : n \in 0..MaxTargets}
        \cup {<< <<"1", ",", " ", "2">> >>, <<WorktreePathOf(<<"f", "/", "x">>)>>}

\* the slots of the registry file, none when it does not parse
AllocatedSlots(w) ==
    {Number(k) : k \in DOMAIN readRegistry(w.fs).registry.allocations}

\* the targets given together with --all
AllTargetLists == {<<>>, <<String(1)>>}

RemoveCommand ==
    /\ Running
    /\ \E all \in BOOLEAN, keepDb \in BOOLEAN,
          failure \in [AllocatedSlots(theWorld) -> RemoveFailures] :
        \E rawTargets \in (IF all THEN AllTargetLists ELSE RawTargetLists) :
            LET r == removeCommand(theWorld, rawTargets, all, keepDb, failure)
            IN  /\ SetWorld(r.world)
                /\ Report(
                        [cmd |-> "remove", before |-> theWorld,
                         rawTargets |-> rawTargets, all |-> all, keepDb |-> keepDb,
                         error |-> r.error, removed |-> r.removed,
                         failed |-> r.failed, attempted |-> r.attempted,
                         wrote |-> r.wrote, exitCode |-> r.exitCode])

(***************************************************************************)
(* wt doctor                                                               *)
(***************************************************************************)
\* the characters of the names used here, in code order
CharOrder ==
    <<" ", "+", ",", "-", ".", "/", "0", "1", "2", "3", "4", "5", "6", "7",
      "8", "9", "_", "a", "f", "p", "r", "t", "w", "x">>

CharCode(c) == CHOOSE i \in 1..Len(CharOrder) : CharOrder[i] = c

RECURSIVE LexLess(_, _)
LexLess(x, y) ==
    IF y = <<>> THEN FALSE
    ELSE IF x = <<>> THEN TRUE
    ELSE IF Head(x) = Head(y) THEN LexLess(Tail(x), Tail(y))
    ELSE CharCode(Head(x)) < CharCode(Head(y))

RECURSIVE SortNames(_)
SortNames(names) ==
    IF names = {} THEN <<>>
    ELSE LET n == CHOOSE x \in names : \A y \in names : x = y \/ LexLess(x, y)
         IN  <<n>> \o SortNames(names \ {n})

\* datname LIKE '<base>_wt%': _ stands for any one character
LikeWt(name, base) ==
    /\ Len(name) >= Len(base) + 3
    /\ SubSeq(name, 1, Len(base)) = base
    /\ name[Len(base) + 2] = "w"
    /\ name[Len(base) + 3] = "t"

\* a listing that finds no database
listDatabasesNone(w, base) == <<>>

listDatabasesByPattern(w, base) ==
    SortNames({d \in w.databases : LikeWt(d, base)})

\* the loop over the allocations: st is [registry, issues]
RECURSIVE checkAllocations(_, _, _, _, _)
checkAllocations(st, w, allocations, keys, fix) ==
    IF keys = <<>> THEN st
    ELSE LET slot == Number(Head(keys))
             allocation == allocations[Head(keys)]
             pathExists == allocation.worktreePath \in DOMAIN w.worktrees
             stale == IF pathExists THEN <<>>
                      ELSE <<[type |-> "stale_entry", slot |-> slot, fixed |-> fix]>>
             missingDb == IF allocation.dbName \in w.databases THEN <<>>
                          ELSE <<[type |-> "missing_db", slot |-> slot, fixed |-> FALSE]>>
             missingEnv ==
                 IF pathExists
                     /\ \E i \in 1..Len(config.envFiles) :
                            config.envFiles[i].source
                                \notin w.worktrees[allocation.worktreePath].env
                     THEN <<[type |-> "missing_env", slot |-> slot, fixed |-> FALSE]>>
                     ELSE <<>>
         IN  checkAllocations(
                 [registry |-> IF ~pathExists /\ fix
                                   THEN removeAllocation(st.registry, slot)
                                   ELSE st.registry,
                  issues |-> st.issues \o stale \o missingDb \o missingEnv],
                 w, allocations, Tail(keys), fix)

\* the loop over the databases found, dropping them without --fix as well
RECURSIVE dropOrphansAlways(_, _, _, _, _)
dropOrphansAlways(st, dbs, registered, fix, failDrop) ==
    IF dbs = <<>> \/ ~st.ok THEN st
    ELSE IF Head(dbs) \in registered
        THEN dropOrphansAlways(st, Tail(dbs), registered, fix, failDrop)
    ELSE dropOrphansAlways(
             [ok |-> Head(dbs) # failDrop /\ Head(dbs) # templateDatabase,
              world |-> IF Head(dbs) # failDrop /\ Head(dbs) # templateDatabase
                            THEN [st.world EXCEPT !.databases = @ \ {Head(dbs)}]
                            ELSE st.world,
              issues |-> Append(st.issues,
                  [type |-> "orphaned_db", dbName |-> Head(dbs), fixed |-> fix])],
             Tail(dbs), registered, fix, failDrop)

\* the loop over the databases found: st is [ok, world, issues]; the drop
\* of the database failDrop fails
RECURSIVE dropOrphans(_, _, _, _, _)
dropOrphans(st, dbs, registered, fix, failDrop) ==
    IF dbs = <<>> \/ ~st.ok THEN st
    ELSE LET dbName == Head(dbs)
             dropped == dropDatabase(st.world, dbName, templateDatabase,
                                     dbName = failDrop)
         IN  IF dbName \in registered
                 THEN dropOrphans(st, Tail(dbs), registered, fix, failDrop)
             ELSE IF ~fix
                 THEN dropOrphans(
                          [st EXCEPT !.issues = Append(@,
                              [type |-> "orphaned_db", dbName |-> dbName,
                               fixed |-> FALSE])],
                          Tail(dbs), registered, fix, failDrop)
             ELSE dropOrphans(
                      [ok |-> dropped.ok, world |-> dropped.world,
                       issues |-> Append(st.issues,
                           [type |-> "orphaned_db", dbName |-> dbName,
                            fixed |-> TRUE])],
                      Tail(dbs), registered, fix, failDrop)

DoctorFailed(w) ==
    [world |-> w, exitCode |-> 1, issues |-> <<>>, wrote |-> FALSE]

\* doctorCommand, from the world it finds to the world it leaves
doctorCommand(w, fix, fail, failDrop) ==
    LET read == readRegistry(w.fs)
        allocations == read.registry.allocations
        checked == checkAllocations([registry |-> read.registry, issues |-> <<>>],
                                    w, allocations, KeysInOrder(DOMAIN allocations), fix)
        allDbs == listDatabasesByPattern(w, config.baseDatabaseName)
        registered == {checked.registry.allocations[k].dbName :
                          k \in DOMAIN checked.registry.allocations}
        orphans == dropOrphans([ok |-> TRUE, world |-> w, issues |-> checked.issues],
                               allDbs, registered, fix, failDrop)
    IN  IF ~read.ok THEN DoctorFailed(w)
        ELSE IF fail = "databaseExists" /\ DOMAIN allocations # {} THEN DoctorFailed(w)
        ELSE IF fail = "listDatabasesByPattern" THEN DoctorFailed(w)
        ELSE IF ~orphans.ok THEN DoctorFailed(orphans.world)
        ELSE [world |-> IF fix
                            THEN [orphans.world EXCEPT
                                      !.fs = writeRegistry(@, checked.registry)]
                            ELSE orphans.world,
              exitCode |-> 0, issues |-> orphans.issues, wrote |-> fix]

DoctorFailPoints == {"none", "databaseExists", "listDatabasesByPattern"}

DoctorCommand ==
    /\ Running
    /\ \E fix \in BOOLEAN, fail \in DoctorFailPoints,
          failDrop \in {<<>>} \cup databases :
        LET r == doctorCommand(theWorld, fix, fail, failDrop)
        IN  /\ SetWorld(r.world)
            /\ Report(
                    [cmd |-> "doctor", before |-> theWorld, fix |-> fix,
                     issues |-> r.issues, wrote |-> r.wrote,
                     exitCode |-> r.exitCode])

(***************************************************************************)
(* wt open                                                                 *)
(***************************************************************************)
\* for (const [slotStr, allocation] of Object.entries(registry.allocations)):
\* the first key whose allocation has the branch, <<>> when none has
RECURSIVE openBranchIn(_, _, _)
openBranchIn(allocations, keys, slotOrBranch) ==
    IF keys = <<>> THEN <<>>
    ELSE IF allocations[Head(keys)].branchName = slotOrBranch
        THEN <<Head(keys)>>
    ELSE openBranchIn(allocations, Tail(keys), slotOrBranch)

\* how openCommand ends: the world it leaves, the error code it reports,
\* process.exitCode, and whether it called createNewWorktree
Opened(w, error, exitCode, created) ==
    [world |-> w, error |-> error, exitCode |-> exitCode, created |-> created]

openSlot(w, registry, asSlot) ==
    IF String(asSlot) \in DOMAIN registry.allocations
        THEN Opened(w, "", 0, FALSE)
        ELSE Opened(w, "NOT_FOUND", 1, FALSE)

openCreated(st) ==
    IF st.error = "" THEN Opened(st.world, "", 0, TRUE)
    ELSE Opened(st.world, "OPEN_FAILED", 1, TRUE)

openBranch(w, registry, slotOrBranch, install, fail, now) ==
    IF openBranchIn(registry.allocations,
                    KeysInOrder(DOMAIN registry.allocations), slotOrBranch) # <<>>
        THEN Opened(w, "", 0, FALSE)
        ELSE openCreated(createNewWorktree(w, slotOrBranch, undefined, install,
                                           fail, now))

\* openCommand without the slot lookup
openReadNoSlot(w, read, slotOrBranch, install, fail, now) ==
    IF ~read.ok THEN Opened(w, "OPEN_FAILED", 1, FALSE)
    ELSE openBranch(w, read.registry, slotOrBranch, install, fail, now)

openRead(w, read, slotOrBranch, install, fail, now) ==
    IF ~read.ok THEN Opened(w, "OPEN_FAILED", 1, FALSE)
    ELSE IF /\ ~parseInt(slotOrBranch).isNaN
            /\ String(parseInt(slotOrBranch).value) = slotOrBranch
        THEN openSlot(w, read.registry, parseInt(slotOrBranch).value)
    ELSE openBranch(w, read.registry, slotOrBranch, install, fail, now)

openCommand(w, slotOrBranch, install, fail, now) ==
    openRead(w, readRegistry(w.fs), slotOrBranch, install, fail, now)

\* the arguments tried: the branches, every slot of 0..MaxSlots+1, and a
\* numeral with a leading zero
OpenTargets ==
    Branches \cup {String(n) : n \in 0..(MaxSlots + 1)} \cup {<<"0", "1">>}

OpenCommand ==
    /\ Running
    /\ \E slotOrBranch \in OpenTargets, install \in BOOLEAN,
          fail \in FailPoints, now \in Times :
        LET r == openCommand(theWorld, slotOrBranch, install, fail, now)
        IN  /\ SetWorld(r.world)
            /\ Report(
                    [cmd |-> "open", before |-> theWorld,
                     slotOrBranch |-> slotOrBranch, error |-> r.error,
                     created |-> r.created, exitCode |-> r.exitCode])

(***************************************************************************)
(* What happens outside wt: a worktree added with git itself where wt puts *)
(* the branch, a worktree directory deleted by hand.                       *)
(***************************************************************************)
GitWorktreeAdd ==
    \E branchName \in Branches :
        /\ Running
        /\ WorktreePathOf(branchName) \notin DOMAIN worktrees
        /\ worktrees' = [p \in DOMAIN worktrees \cup {WorktreePathOf(branchName)} |->
                            IF p = WorktreePathOf(branchName)
                                THEN [branch |-> branchName, env |-> {}]
                                ELSE worktrees[p]]
        /\ UNCHANGED <<args, ret, fs, databases, last, watch, procs, history>>

DeleteDirectory ==
    \E worktreePath \in DOMAIN worktrees :
        /\ Running
        /\ worktrees' = [p \in DOMAIN worktrees \ {worktreePath} |-> worktrees[p]]
        /\ UNCHANGED <<args, ret, fs, databases, last, watch, procs, history>>

\* git checkout, in a worktree, of a branch that no worktree has checked out
OtherBranch == <<"b">>

GitCheckout ==
    \E worktreePath \in WorktreePaths :
        /\ Running
        /\ worktreePath \in DOMAIN worktrees
        /\ \A p \in DOMAIN worktrees : worktrees[p].branch # OtherBranch
        /\ worktrees' = [worktrees EXCEPT ![worktreePath].branch = OtherBranch]
        /\ UNCHANGED <<args, ret, fs, databases, last, watch, procs, history>>

\* the repository before wt is used: no registry file, no worktree, the
\* template database
World0 == [fs |-> EmptyFs, worktrees |-> <<>>, databases |-> {templateDatabase}]

InitWatching(commands) ==
    /\ args = [fn |-> "none"]
    /\ ret = [fn |-> "none"]
    /\ fs = World0.fs
    /\ worktrees = World0.worktrees
    /\ databases = World0.databases
    /\ last = [cmd |-> "none"]
    /\ watch = commands
    /\ procs = <<>>
    /\ history = <<>>

Init == InitWatching({})

Next ==
    \/ NewCommand
    \/ SetupCommand
    \/ RemoveCommand
    \/ DoctorCommand
    \/ GitWorktreeAdd
    \/ DeleteDirectory

Spec == Init /\ [][Next]_vars

\* the same commands, the runs of wt new and wt setup recorded
InitAllocate == InitWatching({"new", "setup"})

SpecAllocate == InitAllocate /\ [][Next]_vars

\* the same commands, the runs of wt remove recorded
InitRemove == InitWatching({"remove"})

SpecRemove == InitRemove /\ [][Next]_vars

\* wt new and wt setup in a repository where branches are also checked out
\* by hand, the runs of wt setup recorded
InitResetup == InitWatching({"setup"})

NextResetup ==
    \/ NewCommand
    \/ SetupCommand
    \/ GitWorktreeAdd
    \/ DeleteDirectory
    \/ GitCheckout

SpecResetup == InitResetup /\ [][NextResetup]_vars

\* the same commands, the runs of wt doctor recorded
InitDoctor == InitWatching({"doctor"})

SpecDoctor == InitDoctor /\ [][Next]_vars

\* a repository whose registry file, edited by hand, holds one allocation,
\* of slot 1, that records dbName: the template database or the database
\* of the slot; the worktree and the database of the slot exist or not
EditedWorld(dbName, onDisk, created) ==
    [fs |-> writeRegistry(EmptyFs,
                addAllocation(createEmptyRegistry, 1,
                    [Allocation(WorktreePathOf(<<"a">>), <<"a">>, 1, 1)
                        EXCEPT !.dbName = dbName])),
     worktrees |-> IF onDisk
                       THEN [p \in {WorktreePathOf(<<"a">>)} |->
                                [branch |-> <<"a">>, env |-> {".env"}]]
                       ELSE <<>>,
     databases |-> IF created
                       THEN {templateDatabase,
                             calculateDbName(1, config.baseDatabaseName)}
                       ELSE {templateDatabase}]

InitTemplate ==
    /\ \E dbName \in {templateDatabase,
                       calculateDbName(1, config.baseDatabaseName)},
          onDisk \in BOOLEAN, created \in BOOLEAN :
           /\ fs = EditedWorld(dbName, onDisk, created).fs
           /\ worktrees = EditedWorld(dbName, onDisk, created).worktrees
           /\ databases = EditedWorld(dbName, onDisk, created).databases
    /\ args = [fn |-> "none"]
    /\ ret = [fn |-> "none"]
    /\ last = [cmd |-> "none"]
    /\ watch = {"remove"}
    /\ procs = <<>>
    /\ history = <<>>

NextTemplate ==
    \/ NewCommand
    \/ RemoveCommand
    \/ DoctorCommand
    \/ DeleteDirectory

SpecTemplate == InitTemplate /\ [][NextTemplate]_vars

\* wt new and wt open, the runs of wt open recorded
InitOpen == InitWatching({"open"})

NextOpen ==
    \/ NewCommand
    \/ OpenCommand
    \/ DeleteDirectory

SpecOpen == InitOpen /\ [][NextOpen]_vars

(***************************************************************************)
(* wt new run step by step, so that invocations interleave and may die.    *)
(* Every call of createNewWorktree on the files, worktrees and databases   *)
(* is one step; writeFileSync is an open that empties the file, one write  *)
(* per token and a close.  An invocation is [pc, branchName, slotOption,   *)
(* st, document, tokens, pos, fd]: st as in the commands above (its world  *)
(* is filled in at each step), document what it writes, tokens what is     *)
(* left to write, pos and fd the offset and the file of its descriptor.    *)
(***************************************************************************)
NoWorld == [fs |-> EmptyFs, worktrees |-> <<>>, databases |-> {}]

\* the names of the invocations
Processes == {1, 2}

NewProcess(branchName, slotOption) ==
    [pc |-> "readRegistry", branchName |-> branchName, slotOption |-> slotOption,
     st |-> Begin(NoWorld), document |-> <<>>, tokens |-> <<>>, pos |-> 1,
     fd |-> "closed"]

\* the command of p, in the world as it stands
Local(p) == [procs[p].st EXCEPT !.world = theWorld]

\* p has made a call that left its command at st: it goes on at pc, or ends
\* when the call has thrown
Advance(p, st, pc) ==
    /\ SetWorld(st.world)
    /\ procs' = [procs EXCEPT ![p].st = [st EXCEPT !.world = NoWorld],
                              ![p].pc = IF st.error # "" THEN "failed" ELSE pc]
    /\ UNCHANGED <<args, ret, last, watch>>

Event(p, op) == [p |-> p, op |-> op]

ReadRegistryStep(p) ==
    /\ p \in DOMAIN procs
    /\ procs[p].pc = "readRegistry"
    /\ Advance(p, DoDetermineSlot(DoReadRegistry(Begin(theWorld)),
                                  procs[p].slotOption),
               "createWorktree")
    /\ history' = Append(history, Event(p, "read"))

CreateWorktreeStep(p) ==
    /\ p \in DOMAIN procs
    /\ procs[p].pc = "createWorktree"
    /\ Advance(p, DoCreateWorktree(Local(p), procs[p].branchName, "none"),
               "getBranchName")
    /\ UNCHANGED history

GetBranchNameStep(p) ==
    /\ p \in DOMAIN procs
    /\ procs[p].pc = "getBranchName"
    /\ Advance(p, DoGetBranchName(Local(p), "none"), "createDatabase")
    /\ UNCHANGED history

CreateDatabaseStep(p) ==
    /\ p \in DOMAIN procs
    /\ procs[p].pc = "createDatabase"
    /\ Advance(p, DoCreateDatabase(Local(p), "none"), "copyAndPatchAllEnvFiles")
    /\ UNCHANGED history

PatchEnvFilesStep(p) ==
    /\ p \in DOMAIN procs
    /\ procs[p].pc = "copyAndPatchAllEnvFiles"
    /\ Advance(p, DoPatchEnvFiles(Local(p), "none"), "open")
    /\ UNCHANGED history

\* registry = addAllocation(...), then writeFileSync opens tmpPath
OpenStep(p) ==
    LET st == procs[p].st
        registry == addAllocation(st.registry, st.slot,
                        Allocation(st.worktreePath, st.branch, st.slot, 1))
    IN  /\ p \in DOMAIN procs
        /\ procs[p].pc = "open"
        /\ fs' = FsOpenW(fs, tmpPath)
        /\ procs' = [procs EXCEPT ![p].pc = "write",
                                  ![p].st.registry = registry,
                                  ![p].document = Serialize(registry),
                                  ![p].tokens = Serialize(registry),
                                  ![p].pos = 1,
                                  ![p].fd = tmpPath]
        /\ UNCHANGED <<args, ret, worktrees, databases, last, watch, history>>

\* writeFileSync writes the next token; after the last one it closes
WriteStep(p) ==
    /\ p \in DOMAIN procs
    /\ procs[p].pc = "write"
    /\ fs' = FsWrite(fs, procs[p].fd, procs[p].pos, Head(procs[p].tokens))
    /\ procs' = [procs EXCEPT
                    ![p].tokens = Tail(@),
                    ![p].pos = @ + 1,
                    ![p].fd = IF Len(procs[p].tokens) = 1 THEN "closed" ELSE @,
                    ![p].pc = IF Len(procs[p].tokens) = 1 THEN "rename" ELSE @]
    /\ UNCHANGED <<args, ret, worktrees, databases, last, watch, history>>

\* fs.renameSync(tmpPath, filePath): throws when tmpPath is no file
RenameStep(p) ==
    /\ p \in DOMAIN procs
    /\ procs[p].pc = "rename"
    /\ IF fs[tmpPath].exists
           THEN /\ fs' = FsRename(fs, tmpPath, filePath)
                /\ procs' = [q \in DOMAIN procs |->
                                [procs[q] EXCEPT
                                    !.fd = FdAfterRename(@, tmpPath, filePath),
                                    !.pc = IF q = p THEN "postSetup" ELSE @]]
                /\ history' = Append(history, Event(p, "write"))
           ELSE /\ procs' = [procs EXCEPT ![p].pc = "failed",
                                          ![p].st.error = "writeRegistry"]
                /\ UNCHANGED <<fs, history>>
    /\ UNCHANGED <<args, ret, worktrees, databases, last, watch>>

PostSetupStep(p) ==
    /\ p \in DOMAIN procs
    /\ procs[p].pc = "postSetup"
    /\ Advance(p, DoPostSetup(Local(p), TRUE, "none"), "done")
    /\ UNCHANGED history

Ended == {"done", "failed", "crashed"}

\* the process is killed, or the call it is in fails for good
Crash(p) ==
    /\ p \in DOMAIN procs
    /\ procs[p].pc \notin Ended
    /\ procs' = [procs EXCEPT ![p].pc = "crashed"]
    /\ UNCHANGED <<args, ret, world, last, watch, history>>

NewStep(p) ==
    \/ ReadRegistryStep(p)
    \/ CreateWorktreeStep(p)
    \/ GetBranchNameStep(p)
    \/ CreateDatabaseStep(p)
    \/ PatchEnvFilesStep(p)
    \/ OpenStep(p)
    \/ WriteStep(p)
    \/ RenameStep(p)
    \/ PostSetupStep(p)

\* the worlds an invocation may start in: nothing allocated, or one of the
\* slots allocated by an earlier wt new
StartWorlds ==
    {World0} \cup
        {createNewWorktree(World0, <<"a">>, String(n), TRUE, "none", 1).world :
             n \in 1..MaxSlots}

\* what a writeRegistry that died may have left at tmpPath
StaleTmps ==
    {NoFile,
     [exists |-> TRUE, content |-> <<[t |-> "open"]>>],
     [exists |-> TRUE,
      content |-> Serialize(createNewWorktree(
                      createNewWorktree(World0, <<"a">>, String(1), TRUE,
                                        "none", 1).world,
                      <<"f", "/", "x">>, String(2), TRUE, "none", 1).registry)]}

ProcessSlotOptions == {undefined} \cup {String(n) : n \in 1..MaxSlots}

InitProcesses(start, stale, ps) ==
    /\ args = [fn |-> "none"]
    /\ ret = [fn |-> "none"]
    /\ fs = [registry |-> start.fs.registry, tmp |-> stale]
    /\ worktrees = start.worktrees
    /\ databases = start.databases
    /\ last = [cmd |-> "none"]
    /\ watch = {}
    /\ procs = ps
    /\ history = <<[p |-> 0, op |-> "previous", file |-> start.fs[filePath]]>>

\* one invocation, which may die at any step
InitWrite ==
    \E start \in StartWorlds, stale \in StaleTmps, branchName \in Branches,
       slotOption \in ProcessSlotOptions :
        InitProcesses(start, stale, <<NewProcess(branchName, slotOption)>>)

NextWrite == \E p \in Processes : NewStep(p) \/ Crash(p)

SpecWrite == InitWrite /\ [][NextWrite]_vars

\* two invocations at once, for two branches
InitRace ==
    \E first \in ProcessSlotOptions, second \in ProcessSlotOptions :
        InitProcesses(World0, NoFile,
                      <<NewProcess(<<"a">>, first),
                        NewProcess(<<"f", "/", "x">>, second)>>)

NextRace == \E p \in Processes : NewStep(p)

SpecRace == InitRace /\ [][NextRace]_vars

(***************************************************************************)
(* The allocator's functions applied to drawn inputs.                      *)
(***************************************************************************)
ServiceNames == {"app", "server"}

DefaultPorts == BasePort..(BasePort + MaxSpread)

ServiceConfigs == [name : ServiceNames, defaultPort : DefaultPorts]

ServiceLists == UNION {[1..n -> ServiceConfigs] : n \in 0..MaxServices}

\* keys a registry file may hold: the decimal strings of 0..MaxSlotArg+1 and "01"
AllocKeys == {String(n) : n \in 0..(MaxSlotArg + 1)} \cup {<<"0", "1">>}

\* an allocation as the allocator's tests build it, for the slot a key names
makeAllocation(key) ==
    [worktreePath |-> <<"tmp", key>>,
     branchName |-> <<"t">>,
     dbName |-> <<"app", "_wt">> \o key,
     redisDb |-> parseInt(key).value,
     ports |-> [n \in {"app"} |-> BasePort + parseInt(key).value * 100],
     createdAt |-> 1]

FindArgs ==
    {[fn |-> "findAvailableSlot",
      registry |-> [version |-> 1,
                    allocations |-> [k \in K |-> makeAllocation(k)]],
      maxSlots |-> m] : K \in SUBSET AllocKeys, m \in 1..MaxSlotArg}

PortArgs ==
    {[fn |-> "calculatePorts", slot |-> p[1], slot2 |-> p[2],
      services |-> sv, stride |-> st] :
        p \in (0..MaxSlotArg) \X (0..MaxSlotArg),
        sv \in ServiceLists, st \in 1..MaxStride}

InitAlloc ==
    /\ args \in FindArgs \cup PortArgs
    /\ ret = [fn |-> "none"]
    /\ fs = EmptyFs
    /\ worktrees = <<>>
    /\ databases = {templateDatabase}
    /\ last = [cmd |-> "none"]
    /\ watch = {}
    /\ procs = <<>>
    /\ history = <<>>

FindAvailableSlotCall ==
    /\ args.fn = "findAvailableSlot"
    /\ ret.fn = "none"
    /\ ret' = [fn |-> "findAvailableSlot",
               value |-> findAvailableSlot(args.registry, args.maxSlots)]
    /\ UNCHANGED <<args, world, last, watch, procs, history>>

CalculatePortsCall ==
    /\ args.fn = "calculatePorts"
    /\ ret.fn = "none"
    /\ ret' = [fn |-> "calculatePorts",
               value |-> calculatePorts(args.slot, args.services, args.stride),
               value2 |-> calculatePorts(args.slot2, args.services, args.stride)]
    /\ UNCHANGED <<args, world, last, watch, procs, history>>

NextAlloc == FindAvailableSlotCall \/ CalculatePortsCall

SpecAlloc == InitAlloc /\ [][NextAlloc]_vars

(***************************************************************************)
(* Claims about the allocator.                                             *)
(***************************************************************************)
FreeSlots(registry, maxSlots) ==
    {s \in 1..maxSlots : String(s) \notin DOMAIN registry.allocations}

\* C1: findAvailableSlot returns the smallest integer of 1..maxSlots whose
\* decimal string is not a key of registry.allocations, and returns null if
\* and only if every integer of 1..maxSlots is a key.
C1_FindAvailableSlotSmallestFree ==
    ret.fn = "findAvailableSlot" =>
        LET free == FreeSlots(args.registry, args.maxSlots)
        IN  /\ (ret.value = null) <=> (free = {})
            /\ ret.value # null =>
                   /\ ret.value \in free
                   /\ \A s \in free : ret.value <= s

\* a free slot found above an occupied one and below another occupied one,
\* in a registry that also holds keys that are no slot of 1..maxSlots
C1_Witness ==
    /\ ret.fn = "findAvailableSlot"
    /\ ret.value = 2
    /\ args.maxSlots = 3
    /\ {String(1), String(3), String(0), <<"0", "1">>}
           \subseteq DOMAIN args.registry.allocations

\* C9 as stated: one entry per configured service, each service's name
\* mapped to slot * stride + that service's defaultPort.
C9_OneEntryPerService ==
    ret.fn = "calculatePorts" =>
        /\ Cardinality(DOMAIN ret.value) = Len(args.services)
        /\ \A i \in 1..Len(args.services) :
               /\ args.services[i].name \in DOMAIN ret.value
               /\ ret.value[args.services[i].name] =
                      args.slot * args.stride + args.services[i].defaultPort

DistinctNames(services) ==
    \A i, j \in 1..Len(services) :
        services[i].name = services[j].name => i = j

\* the last service of the list that has the given name
LastNamed(services, n) ==
    services[CHOOSE i \in 1..Len(services) :
                 /\ services[i].name = n
                 /\ \A j \in (i + 1)..Len(services) : services[j].name # n]

\* C9 amended: calculatePorts returns a map with exactly one entry per
\* distinct service name, mapping the name to slot * stride + the defaultPort
\* of the last service of that name; for a list of pairwise distinct names
\* that is one entry per configured service, with that service's defaultPort.
C9_OneEntryPerName ==
    ret.fn = "calculatePorts" =>
        /\ DOMAIN ret.value = {args.services[i].name : i \in 1..Len(args.services)}
        /\ \A n \in DOMAIN ret.value :
               ret.value[n] =
                   args.slot * args.stride + LastNamed(args.services, n).defaultPort
        /\ DistinctNames(args.services) =>
               /\ Cardinality(DOMAIN ret.value) = Len(args.services)
               /\ \A i \in 1..Len(args.services) :
                      ret.value[args.services[i].name] =
                          args.slot * args.stride + args.services[i].defaultPort

C9_Witness ==
    /\ ret.fn = "calculatePorts"
    /\ args.slot = 2
    /\ args.stride = 3
    /\ Len(args.services) = 2
    /\ DistinctNames(args.services)
    /\ ret.value["app"] = 6 + BasePort + 1
    /\ ret.value["server"] = 6 + BasePort

Spread(services) ==
    LET ports == {services[i].defaultPort : i \in 1..Len(services)}
    IN  (CHOOSE hi \in ports : \A p \in ports : p <= hi)
            - (CHOOSE lo \in ports : \A p \in ports : lo <= p)

\* C10: for slots s1 # s2 of 1..maxSlots, the ports of calculatePorts(s1, ..)
\* and calculatePorts(s2, ..) are disjoint whenever the stride is larger than
\* the spread (max defaultPort - min defaultPort) of the services.
C10_DisjointPorts ==
    (/\ ret.fn = "calculatePorts"
     /\ args.slot # args.slot2
     /\ args.slot \in 1..MaxSlotArg
     /\ args.slot2 \in 1..MaxSlotArg
     /\ args.services # <<>>
     /\ args.stride > Spread(args.services))
        => Range(ret.value) \cap Range(ret.value2) = {}

\* two services one port apart, adjacent slots, the smallest stride above
\* the spread
C10_Witness ==
    /\ ret.fn = "calculatePorts"
    /\ args.slot2 = args.slot + 1
    /\ args.slot \in 1..MaxSlotArg
    /\ args.slot2 \in 1..MaxSlotArg
    /\ DistinctNames(args.services)
    /\ Len(args.services) = 2
    /\ Spread(args.services) = 1
    /\ args.stride = 2
    /\ Range(ret.value) \cap Range(ret.value2) = {}

(***************************************************************************)
(* Claims about the persisted registry under the commands run one at a     *)
(* time.                                                                   *)
(***************************************************************************)
\* the allocation members of the registry file as it stands
PersistedEntries ==
    {fs[filePath].content[i] : i \in {j \in 1..Len(fs[filePath].content) :
                                          fs[filePath].content[j].t = "entry"}}

PersistedKeys == {e.key : e \in PersistedEntries}

\* C2: in every state of the persisted registry reachable from an empty one
\* by wt new (with or without --slot), wt setup, wt remove and wt doctor run
\* one at a time, every allocation key parses to an integer of 1..maxSlots.
C2_KeysInRange ==
    \A k \in PersistedKeys :
        /\ ~parseInt(k).isNaN
        /\ parseInt(k).value \in 1..config.maxSlots

\* every slot of 1..maxSlots is a key of the registry file, the last one for
\* a worktree that was given the first slot before
C2_Witness ==
    /\ PersistedKeys = {String(n) : n \in 1..config.maxSlots}
    /\ readRegistry(fs).ok
    /\ readRegistry(fs).registry.allocations[String(config.maxSlots)].worktreePath
           = WorktreePathOf(<<"a">>)

\* C8: in every persisted registry reachable by wt new, wt setup and wt
\* remove, the allocation stored under slot key s has redisDb equal to s.
C8_RedisDbIsSlot ==
    \A e \in PersistedEntries : e.value.redisDb = parseInt(e.key).value

\* an allocation stored under the last slot while the first slot is free,
\* with the redisDb of the last slot
C8_Witness ==
    /\ PersistedKeys = {String(config.maxSlots)}
    /\ \E e \in PersistedEntries :
           /\ e.value.redisDb = config.maxSlots
           /\ e.value.worktreePath = WorktreePathOf(<<"f", "/", "x">>)

(***************************************************************************)
(* Claims about wt new and wt setup, read off the recorded run.            *)
(***************************************************************************)
\* the text is the decimal numeral of an integer of 1..maxSlots
IsSlotText(text) == \E n \in 1..config.maxSlots : text = String(n)

RegistryBefore == readRegistry(last.before.fs).registry

\* the command ended with exit code 1 and left the files, the worktrees and
\* the databases as it found them
FailedWithoutEffect ==
    /\ last.exitCode = 1
    /\ theWorld = last.before

\* C6: wt new --slot N, where N is not an integer of 1..maxSlots or slot N
\* is already a key of the registry, fails with an error, allocates no other
\* slot, creates no worktree and no database and leaves the persisted
\* registry unchanged.
C6_ExplicitSlotRejected ==
    (/\ last.cmd = "new"
     /\ last.slotOption # undefined
     /\ \/ ~IsSlotText(last.slotOption)
        \/ last.slotOption \in DOMAIN RegistryBefore.allocations)
        => /\ FailedWithoutEffect
           /\ last.error \in {"Invalid slot", "Slot occupied"}

\* What holds of the code: the same with N read as parseInt reads it, so
\* that a text such as 1x counts as the slot 1.
C6_ParsedSlotRejected ==
    (/\ last.cmd = "new"
     /\ last.slotOption # undefined
     /\ readRegistry(last.before.fs).ok
     /\ \/ parseInt(last.slotOption).isNaN
        \/ parseInt(last.slotOption).value \notin 1..config.maxSlots
        \/ String(parseInt(last.slotOption).value)
               \in DOMAIN RegistryBefore.allocations)
        => /\ FailedWithoutEffect
           /\ last.error \in {"Invalid slot", "Slot occupied"}

\* every slot of 1..maxSlots is a key of the registry the command found
FullBefore ==
    /\ readRegistry(last.before.fs).ok
    /\ \A n \in 1..config.maxSlots : String(n) \in DOMAIN RegistryBefore.allocations

\* the path wt setup works on
SetupPath == pathResolve(IF last.targetPath = undefined THEN cwd ELSE last.targetPath)

\* wt new without --slot, or wt setup of a path that is not in the registry
NewWithoutSlot == last.cmd = "new" /\ last.slotOption = undefined

SetupOfUnregistered ==
    last.cmd = "setup" /\ findByPath(RegistryBefore, SetupPath) = <<>>

\* C7 as stated: when all slots are occupied, wt new without --slot and wt
\* setup of a path not in the registry both fail with a no-free-slot error,
\* create no worktree or database, write no env file and leave the persisted
\* registry unchanged.
C7_NoFreeSlotFails ==
    ((NewWithoutSlot \/ SetupOfUnregistered) /\ FullBefore)
        => /\ FailedWithoutEffect
           /\ last.error \in {"All slots occupied", "NO_SLOTS"}

\* C7 amended: when all slots are occupied, wt new without --slot and wt
\* setup of a path not in the registry both fail, create no worktree or
\* database, write no env file and leave the persisted registry unchanged;
\* the error is the no-free-slot error, except for wt setup of the main
\* worktree, which is refused as MAIN_WORKTREE before the slots are looked at.
C7_NoFreeSlotFailsOffMain ==
    ((NewWithoutSlot \/ SetupOfUnregistered) /\ FullBefore)
        => /\ FailedWithoutEffect
           /\ IF last.cmd = "setup" /\ isMainWorktree(SetupPath)
                  THEN last.error = "MAIN_WORKTREE"
                  ELSE last.error \in {"All slots occupied", "NO_SLOTS"}

\* wt setup of a worktree that exists and is not in the full registry,
\* given by a relative path, ended with NO_SLOTS
C7_Witness ==
    /\ last.cmd = "setup"
    /\ FullBefore
    /\ SetupOfUnregistered
    /\ last.targetPath = config.baseWorktreePath \o <<"/", "a">>
    /\ SetupPath \in DOMAIN last.before.worktrees
    /\ last.error = "NO_SLOTS"
    /\ FailedWithoutEffect

(***************************************************************************)
(* Claims about the registry file under invocations that interleave or     *)
(* die.                                                                    *)
(***************************************************************************)
\* the registry file before the invocations started
Previous == history[1].file

\* the registry file is the previous one, or the whole document of one
\* writeRegistry call
CompleteFile ==
    \/ fs[filePath] = Previous
    \/ \E p \in DOMAIN procs :
           /\ procs[p].document # <<>>
           /\ fs[filePath] = [exists |-> TRUE, content |-> procs[p].document]

\* every read of the registry came before every write of it
ReadsBeforeWrites ==
    \A i, j \in 1..Len(history) :
        (history[i].op = "read" /\ history[j].op = "write") => i < j

BothDone == DOMAIN procs = {1, 2} /\ \A p \in DOMAIN procs : procs[p].pc = "done"

\* the invocation whose rename came last, and the other one
LaterWriter == history[Len(history)].p

EarlierWriter == 3 - LaterWriter

\* C3: two wt new invocations can both read the same registry state before
\* either writes; whenever they do and both complete successfully, the
\* persisted registry is the one the later writer wrote: the state both read
\* plus the later writer's allocation, the earlier writer's allocation lost.
C3_LastWriterWins ==
    (BothDone /\ ReadsBeforeWrites)
        => /\ readRegistry(fs).ok
           /\ DOMAIN readRegistry(fs).registry.allocations
                  = {String(procs[LaterWriter].st.slot)}
           /\ \A k \in DOMAIN readRegistry(fs).registry.allocations :
                  /\ readRegistry(fs).registry.allocations[k].worktreePath
                         = procs[LaterWriter].st.worktreePath
                  /\ readRegistry(fs).registry.allocations[k].worktreePath
                         # procs[EarlierWriter].st.worktreePath

\* both invocations are done without an error, they read the registry before
\* either wrote and were given different slots, and the registry file holds
\* the later writer's slot only, while the earlier writer's worktree and
\* database exist
C3_Witness ==
    /\ BothDone
    /\ ReadsBeforeWrites
    /\ \A p \in DOMAIN procs : procs[p].st.error = ""
    /\ procs[1].st.slot # procs[2].st.slot
    /\ PersistedKeys = {String(procs[LaterWriter].st.slot)}
    /\ procs[EarlierWriter].st.worktreePath \in DOMAIN worktrees
    /\ calculateDbName(procs[EarlierWriter].st.slot, config.baseDatabaseName)
           \in databases

\* C4: with a single writer, if the process dies or the write fails at any
\* point of writeRegistry, a readRegistry after it returns the complete
\* previous registry or the complete new one, never a cut or mixed document.
C4_CrashAtomic ==
    DOMAIN procs = {1} => (CompleteFile /\ readRegistry(fs).ok)

\* the writer died with part of its document written, over what an earlier
\* writer had left at the temporary path, and the registry file is the
\* previous one, which holds an allocation
C4_Witness ==
    /\ DOMAIN procs = {1}
    /\ procs[1].pc = "crashed"
    /\ fs[tmpPath].exists
    /\ Len(fs[tmpPath].content) \in 1..(Len(procs[1].document) - 1)
    /\ Previous.exists
    /\ fs[filePath] = Previous
    /\ PersistedKeys # {}

\* C5: when two or more invocations run writeRegistry on one repository at
\* once, at every interleaving of their steps a reader of the registry file
\* sees the complete document of exactly one writeRegistry call, or the
\* previous content, never a torn file.
C5_NeverTorn ==
    DOMAIN procs = {1, 2} => CompleteFile

(***************************************************************************)
(* The registry store's functions applied to drawn inputs.                 *)
(***************************************************************************)
\* registries over the keys a registry file may hold
Registries ==
    {[version |-> 1, allocations |-> [k \in K |-> makeAllocation(k)]] :
        K \in SUBSET AllocKeys}

\* the allocation handed to addAllocation: not one a drawn registry holds
newAllocation(slot) ==
    [makeAllocation(String(slot)) EXCEPT !.branchName = <<"n">>]

StoreArgs ==
    {[fn |-> "addAllocation", registry |-> r, slot |-> n,
      allocation |-> newAllocation(n)] :
        r \in Registries, n \in 0..(MaxSlotArg + 1)}

\* a heap that holds the registry: the registry object first, then its
\* allocations object, then the allocation objects in key order, then the
\* allocation handed to addAllocation
HeapOf(registry, allocation) ==
    LET keys == KeysInOrder(DOMAIN registry.allocations)
    IN  <<[version |-> registry.version, allocations |-> 2],
          [k \in DOMAIN registry.allocations |->
              2 + CHOOSE i \in 1..Len(keys) : keys[i] = k]>>
            \o [i \in 1..Len(keys) |-> registry.allocations[keys[i]]]
            \o <<allocation>>

HeapArgs ==
    {[fn |-> f, heap |-> HeapOf(r, newAllocation(n)), registry |-> 1,
      slot |-> n, allocation |-> Len(HeapOf(r, newAllocation(n)))] :
        f \in {"addAllocationOnHeap", "removeAllocationOnHeap"},
        r \in Registries, n \in 0..(MaxSlotArg + 1)}

\* what the repository root holds before writeRegistry: no registry file, or
\* the registry file of an earlier write and a temporary file left behind
RootsBefore ==
    {EmptyFs,
     [registry |-> [exists |-> TRUE,
                    content |-> Serialize(addAllocation(createEmptyRegistry, 1,
                                                        newAllocation(1)))],
      tmp |-> [exists |-> TRUE, content |-> <<[t |-> "open"]>>]]}

\* the registries handed to writeRegistry: those drawn, of which the ones
\* with the key "0" hold a redisDb of 0, and one of another version
WriteArgs ==
    {[fn |-> "writeRegistry", root |-> f, registry |-> r] :
        f \in RootsBefore,
        r \in Registries \cup {[version |-> 2, allocations |-> <<>>]}}

\* what an allocation of a registry file may hold for each member: the value
\* the schema asks for, one of another type, one out of range, or nothing
AllocationDocs ==
    {JObject([worktreePath |-> w, branchName |-> JString(<<"t">>),
              dbName |-> JString(<<"d">>), redisDb |-> r, ports |-> p,
              createdAt |-> c, note |-> x]) :
        w \in {JString(<<"/", "w">>), JString(<<>>), JNumber(1), JAbsent},
        r \in {JNumber(1), JNumber(0), JString(<<"1">>), JAbsent},
        p \in {JObject([app |-> JNumber(BasePort)]), JObject([app |-> JNumber(0)]),
               JObject([app |-> JString(<<"1">>)]), JObject(<<>>), JAbsent},
        c \in {JString(toISOString(1)), JString(<<"x">>), JAbsent},
        x \in {JAbsent, JString(<<"x">>)}}

\* the entry of key 1, when the other entry and the rest of the file are as
\* the schema asks, and the rest of the file when the entry is
RegistryDocs ==
    {JObject([version |-> JNumber(1),
              allocations |-> JObject([k \in {String(1), String(2)} |->
                  IF k = String(1) THEN a
                  ELSE allocationToJson(makeAllocation(String(2)))])]) :
        a \in AllocationDocs}
    \cup
    {JObject([version |-> v, allocations |-> as, note |-> x]) :
        v \in {JNumber(1), JNumber(2), JString(<<"1">>), JAbsent},
        as \in {JObject(<<>>),
                JObject([k \in {String(1)} |-> allocationToJson(makeAllocation(k))]),
                JObject([k \in {String(1)} |-> JString(<<"x">>)]),
                JString(<<"x">>), JAbsent},
        x \in {JAbsent, JString(<<"x">>)}}

ReadArgs == {[fn |-> "readRegistry", file |-> f] : f \in RegistryDocs \cup {JAbsent}}

InitStore ==
    /\ args \in StoreArgs \cup HeapArgs \cup WriteArgs \cup ReadArgs
    /\ ret = [fn |-> "none"]
    /\ fs = EmptyFs
    /\ worktrees = <<>>
    /\ databases = {templateDatabase}
    /\ last = [cmd |-> "none"]
    /\ watch = {}
    /\ procs = <<>>
    /\ history = <<>>

\* removeAllocation(addAllocation(registry, slot, allocation), slot)
AddThenRemoveCall ==
    /\ args.fn = "addAllocation"
    /\ ret.fn = "none"
    /\ ret' = [fn |-> "addThenRemove",
               added |-> addAllocation(args.registry, args.slot, args.allocation),
               value |-> removeAllocation(
                   addAllocation(args.registry, args.slot, args.allocation),
                   args.slot)]
    /\ UNCHANGED <<args, world, last, watch, procs, history>>

AddAllocationCall ==
    /\ args.fn = "addAllocationOnHeap"
    /\ ret.fn = "none"
    /\ ret' = [fn |-> "addAllocationOnHeap",
               result |-> addAllocationOnHeap(args.heap, args.registry,
                                              args.slot, args.allocation)]
    /\ UNCHANGED <<args, world, last, watch, procs, history>>

RemoveAllocationCall ==
    /\ args.fn = "removeAllocationOnHeap"
    /\ ret.fn = "none"
    /\ ret' = [fn |-> "removeAllocationOnHeap",
               result |-> removeAllocationOnHeap(args.heap, args.registry, args.slot)]
    /\ UNCHANGED <<args, world, last, watch, procs, history>>

\* writeRegistry(root, registry), then readRegistry(root)
WriteThenReadCall ==
    /\ args.fn = "writeRegistry"
    /\ ret.fn = "none"
    /\ ret' = [fn |-> "writeThenRead",
               root |-> writeRegistry(args.root, args.registry),
               value |-> readRegistry(writeRegistry(args.root, args.registry))]
    /\ UNCHANGED <<args, world, last, watch, procs, history>>

ReadRegistryCall ==
    /\ args.fn = "readRegistry"
    /\ ret.fn = "none"
    /\ ret' = [fn |-> "readRegistry", value |-> readRegistryJson(args.file)]
    /\ UNCHANGED <<args, world, last, watch, procs, history>>

NextStore ==
    \/ ReadRegistryCall
    \/ AddThenRemoveCall
    \/ AddAllocationCall
    \/ RemoveAllocationCall
    \/ WriteThenReadCall

SpecStore == InitStore /\ [][NextStore]_vars

(***************************************************************************)
(* Claims about the registry store.                                        *)
(***************************************************************************)
\* C11 as stated: for every registry, slot and allocation,
\* removeAllocation(addAllocation(registry, slot, allocation), slot) has
\* exactly the allocation set of the original registry.
C11_AddRemoveRestores ==
    ret.fn = "addThenRemove" => ret.value.allocations = args.registry.allocations

\* C11 amended: for every registry, every slot that is not already a key of
\* the registry and every allocation, removeAllocation(addAllocation(registry,
\* slot, allocation), slot) has exactly the allocation set of the original
\* registry; for a slot that is a key, the result is the original set without
\* that key.
C11_AddRemoveRestoresFreeSlot ==
    ret.fn = "addThenRemove" =>
        /\ String(args.slot) \notin DOMAIN args.registry.allocations
               => ret.value.allocations = args.registry.allocations
        /\ String(args.slot) \in DOMAIN args.registry.allocations
               => /\ DOMAIN ret.value.allocations
                          = DOMAIN args.registry.allocations \ {String(args.slot)}
                  /\ \A k \in DOMAIN ret.value.allocations :
                         ret.value.allocations[k] = args.registry.allocations[k]

\* a free slot added to and removed from a registry that holds other keys,
\* among them "01", which is not the key of slot 1
C11_Witness ==
    /\ ret.fn = "addThenRemove"
    /\ args.slot = 1
    /\ DOMAIN args.registry.allocations = {<<"0", "1">>, String(2)}
    /\ DOMAIN ret.added.allocations = {<<"0", "1">>, String(1), String(2)}
    /\ ret.value.allocations = args.registry.allocations

OnHeap == ret.fn \in {"addAllocationOnHeap", "removeAllocationOnHeap"}

\* C12: addAllocation and removeAllocation never mutate their input
\* registry: after either call the registry object passed in and its
\* allocations object (and every other object that existed) are what they
\* were before the call, and the result is a separate value: a new registry
\* object with a new allocations object.
C12_InputNotMutated ==
    OnHeap =>
        /\ \A a \in 1..Len(args.heap) : ret.result.heap[a] = args.heap[a]
        /\ ret.result.value \notin 1..Len(args.heap)
        /\ ret.result.heap[ret.result.value].allocations \notin 1..Len(args.heap)

\* addAllocation replaced the entry of an occupied slot and removeAllocation
\* deleted one, each in a result that differs from its input, which still
\* holds the entry; the results are what the functions return on values
C12_WitnessAdd ==
    /\ ret.fn = "addAllocationOnHeap"
    /\ String(args.slot) \in DOMAIN Deref(args.heap, args.registry).allocations
    /\ Deref(ret.result.heap, ret.result.value)
           = addAllocation(Deref(args.heap, args.registry), args.slot,
                           args.heap[args.allocation])
    /\ Deref(ret.result.heap, ret.result.value) # Deref(args.heap, args.registry)
    /\ Deref(ret.result.heap, args.registry) = Deref(args.heap, args.registry)

C12_WitnessRemove ==
    /\ ret.fn = "removeAllocationOnHeap"
    /\ String(args.slot) \in DOMAIN Deref(args.heap, args.registry).allocations
    /\ Deref(ret.result.heap, ret.result.value)
           = removeAllocation(Deref(args.heap, args.registry), args.slot)
    /\ Deref(ret.result.heap, args.registry) = Deref(args.heap, args.registry)

\* the registry value satisfies registrySchema
SatisfiesSchema(registry) ==
    /\ registry.version = 1
    /\ \A k \in DOMAIN registry.allocations : ValidAllocation(registry.allocations[k])

C14_ReadRegistryStrict ==
    ret.fn = "readRegistry" =>
        /\ args.file = JAbsent
               => ret.value = [ok |-> TRUE, registry |-> createEmptyRegistry]
        /\ (args.file # JAbsent /\ ret.value.ok)
               => /\ SatisfiesSchema(ret.value.registry)
                  /\ registryToJson(ret.value.registry) = args.file

\* the file without the members the schemas do not name
StripUnknown(file) ==
    JObject([version |-> file.members.version,
             allocations |->
                 JObject([k \in DOMAIN file.members.allocations.members |->
                     JObject([f \in AllocationFields |->
                         file.members.allocations.members[k].members[f]])])])

\* What holds of the code: the same for the members the schemas name; a
\* member they do not name is left out of the result without an error.
C14_ReadRegistryKnownMembers ==
    ret.fn = "readRegistry" =>
        /\ args.file = JAbsent
               => ret.value = [ok |-> TRUE, registry |-> createEmptyRegistry]
        /\ (args.file # JAbsent /\ ret.value.ok)
               => /\ SatisfiesSchema(ret.value.registry)
                  /\ registryToJson(ret.value.registry) = StripUnknown(args.file)

(***************************************************************************)
(* Claims about wt setup of a path that has an allocation.                 *)
(***************************************************************************)
RegistryAfter == readRegistry(fs).registry

\* the slot under which the registry the command found holds the path
ExistingSlot == findByPath(RegistryBefore, SetupPath)[1]

SetupOfRegistered ==
    /\ last.cmd = "setup"
    /\ readRegistry(last.before.fs).ok
    /\ findByPath(RegistryBefore, SetupPath) # <<>>

\* C15: wt setup of a worktree path that already has an allocation at slot
\* s, the paths compared in absolute form, reuses slot s: afterwards the
\* registry has the same set of slot keys as before, the allocation of that
\* path is still under key s, replaced wholesale by the one the command
\* made, and every other allocation is unchanged.
C15_SetupReusesSlot ==
    SetupOfRegistered =>
        /\ readRegistry(fs).ok
        /\ DOMAIN RegistryAfter.allocations = DOMAIN RegistryBefore.allocations
        /\ pathResolve(RegistryAfter.allocations[String(ExistingSlot)].worktreePath)
               = SetupPath
        /\ \A k \in DOMAIN RegistryBefore.allocations \ {String(ExistingSlot)} :
               RegistryAfter.allocations[k] = RegistryBefore.allocations[k]
        /\ last.error \in {"", "postSetup"} =>
               /\ last.slot = ExistingSlot
               /\ last.reused
               /\ RegistryAfter.allocations[String(ExistingSlot)]
                      = Allocation(SetupPath, worktrees[SetupPath].branch,
                                   ExistingSlot,
                                   RegistryAfter.allocations[String(ExistingSlot)].createdAt)

\* wt setup w/a, the path given relative to the working directory, of a
\* worktree that holds slot 2 of a registry with two entries and has had
\* another branch checked out since: the entry of slot 2 is replaced by one
\* with that branch
C15_Witness ==
    /\ SetupOfRegistered
    /\ last.targetPath = config.baseWorktreePath \o <<"/", "a">>
    /\ last.error = ""
    /\ ExistingSlot = 2
    /\ DOMAIN RegistryBefore.allocations = {String(1), String(2)}
    /\ RegistryBefore.allocations[String(2)].branchName = <<"a">>
    /\ RegistryAfter.allocations[String(2)].branchName = OtherBranch

(***************************************************************************)
(* Claims about wt new and wt setup that fail on the way.                  *)
(***************************************************************************)
\* the steps between the choice of the slot and the write of the registry
StepsBeforeWrite ==
    {"createWorktree", "getBranchName", "databaseExists", "createDatabase",
     "copyAndPatchAllEnvFiles"}

\* C16: if a step of wt new or wt setup fails before the registry is written
\* (worktree creation, branch lookup, database existence check or creation,
\* env-file patching), the persisted registry is identical to what it was
\* before the command started: the registry file and its temporary sibling
\* are untouched.
C16_FailureLeavesRegistry ==
    (last.cmd \in {"new", "setup"} /\ last.error \in StepsBeforeWrite)
        => /\ last.exitCode = 1
           /\ fs = last.before.fs

\* wt new failed at the env files, after it had created the worktree and the
\* database of slot 2, and the registry file still holds slot 1 alone
C16_WitnessNew ==
    /\ last.cmd = "new"
    /\ last.error = "copyAndPatchAllEnvFiles"
    /\ last.slot = 2
    /\ DOMAIN worktrees # DOMAIN last.before.worktrees
    /\ calculateDbName(2, config.baseDatabaseName) \in databases \ last.before.databases
    /\ fs[filePath].exists
    /\ PersistedKeys = {String(1)}

\* wt setup of a worktree made with git failed at the creation of its
\* database, and the registry file still holds slot 1 alone
C16_WitnessSetup ==
    /\ last.cmd = "setup"
    /\ last.error = "createDatabase"
    /\ last.slot = 2
    /\ fs[filePath].exists
    /\ PersistedKeys = {String(1)}

(***************************************************************************)
(* Claims about wt remove.                                                 *)
(***************************************************************************)
\* the slots the command reported as removed, and their keys
RemovedSlots == {last.removed[i].slot : i \in 1..Len(last.removed)}

RemovedKeys == {String(s) : s \in RemovedSlots}

\* C17 as stated: after wt remove successfully removes the allocation at
\* slot s, the persisted registry has no key s and every other allocation is
\* exactly as it was before the command.
C17_RemoveLeavesOthers ==
    last.cmd = "remove" =>
        \A s \in RemovedSlots :
            /\ readRegistry(fs).ok
            /\ String(s) \notin DOMAIN RegistryAfter.allocations
            /\ \A k \in DOMAIN RegistryBefore.allocations \ {String(s)} :
                   /\ k \in DOMAIN RegistryAfter.allocations
                   /\ RegistryAfter.allocations[k] = RegistryBefore.allocations[k]

\* C17 amended: after wt remove successfully removes the allocation at slot
\* s, the persisted registry has no key s, and every allocation of a slot
\* that the command did not remove is exactly as it was before the command;
\* with several targets the other slots it removed are gone as well.
C17_RemoveLeavesUnremoved ==
    last.cmd = "remove" =>
        \A s \in RemovedSlots :
            /\ readRegistry(fs).ok
            /\ String(s) \notin DOMAIN RegistryAfter.allocations
            /\ DOMAIN RegistryAfter.allocations
                   = DOMAIN RegistryBefore.allocations \ RemovedKeys
            /\ \A k \in DOMAIN RegistryAfter.allocations :
                   RegistryAfter.allocations[k] = RegistryBefore.allocations[k]

\* wt remove 2 1 on a registry of two entries: the removal of slot 2 failed
\* at its database, slot 1 was removed, and the file holds the entry of slot
\* 2 as it was
C17_Witness ==
    /\ last.cmd = "remove"
    /\ last.rawTargets = <<String(2), String(1)>>
    /\ RemovedSlots = {1}
    /\ Len(last.failed) = 1
    /\ DOMAIN RegistryBefore.allocations = {String(1), String(2)}
    /\ DOMAIN RegistryAfter.allocations = {String(2)}
    /\ RegistryAfter.allocations[String(2)] = RegistryBefore.allocations[String(2)]

(***************************************************************************)
(* Env patcher.                                                            *)
(*                                                                         *)
(* A file's content, a line and a value are sequences of one-character     *)
(* strings; a patch is a record with var and type and, when the rule names *)
(* one, service; a result is ok with a value, or not ok with the message   *)
(* of the Error thrown.                                                    *)
(***************************************************************************)
UpperCase ==
    {"A", "B", "C", "D", "E", "F", "G", "H", "I", "J", "K", "L", "M",
     "N", "O", "P", "Q", "R", "S", "T", "U", "V", "W", "X", "Y", "Z"}

\* [A-Z_]
IsNameStart(c) == c \in UpperCase \cup {"_"}

\* [A-Z0-9_]
IsNameChar(c) == IsNameStart(c) \/ IsDigit(c)

\* ["']
IsQuote(c) == c \in {"\"", "'"}

\* the characters that . does not match; "\n" is never inside a line
LineTerminators == {"\r"}

\* [A-Z0-9_]* : the longest run at the start of s
RECURSIVE NameChars(_)
NameChars(s) ==
    IF s = <<>> \/ ~IsNameChar(Head(s)) THEN <<>>
    ELSE <<Head(s)>> \o NameChars(Tail(s))

\* .* : the longest run at the start of s
RECURSIVE DotStar(_)
DotStar(s) ==
    IF s = <<>> \/ Head(s) \in LineTerminators THEN <<>>
    ELSE <<Head(s)>> \o DotStar(Tail(s))

\* what follows "name" in a line that starts with it
AfterName(line, name) == SubSeq(line, Len(name) + 1, Len(line))

MatchOf(line, name) ==
    IF AfterName(line, name) = <<>> \/ Head(AfterName(line, name)) # "="
        THEN [matched |-> FALSE]
        ELSE [matched |-> TRUE, varName |-> name,
              rawValue |-> DotStar(Tail(AfterName(line, name)))]

\* line.match(/^([A-Z_][A-Z0-9_]*)=(.*)/)
matchAssignment(line) ==
    IF line = <<>> \/ ~IsNameStart(Head(line)) THEN [matched |-> FALSE]
    ELSE MatchOf(line, <<Head(line)>> \o NameChars(Tail(line)))

StripTrailingQuote(s) ==
    IF s # <<>> /\ IsQuote(s[Len(s)]) THEN SubSeq(s, 1, Len(s) - 1) ELSE s

\* rawValue.replace(/^["']|["']$/g, ''): a quote at the start goes, and a
\* quote at the end of what is left goes, whether or not they pair up
Unquote(rawValue) ==
    StripTrailingQuote(IF rawValue # <<>> /\ IsQuote(Head(rawValue))
                           THEN Tail(rawValue) ELSE rawValue)

\* rawValue.startsWith('"') ? '"' : rawValue.startsWith("'") ? "'" : ''
QuoteOf(rawValue) ==
    IF rawValue # <<>> /\ IsQuote(Head(rawValue)) THEN <<Head(rawValue)>> ELSE <<>>

\* [^/?]+ : the longest run at the start of s
RECURSIVE SegmentChars(_)
SegmentChars(s) ==
    IF s = <<>> \/ Head(s) \in {"/", "?"} THEN <<>>
    ELSE <<Head(s)>> \o SegmentChars(Tail(s))

\* url.replace(/\/([^/?]+)(\?|$)/, `/${dbName}$2`): the first "/" whose
\* segment runs to a "?" or to the end has the segment replaced
RECURSIVE patchDatabaseUrl(_, _)
patchDatabaseUrl(url, dbName) ==
    IF url = <<>> THEN <<>>
    ELSE IF /\ Head(url) = "/"
            /\ SegmentChars(Tail(url)) # <<>>
            /\ \/ Len(SegmentChars(Tail(url))) = Len(url) - 1
               \/ url[Len(SegmentChars(Tail(url))) + 2] = "?"
        THEN <<"/">> \o dbName
                 \o SubSeq(url, Len(SegmentChars(Tail(url))) + 2, Len(url))
    ELSE <<Head(url)>> \o patchDatabaseUrl(Tail(url), dbName)

\* \d+$ : the longest run of digits at the end of s
RECURSIVE DigitSuffix(_)
DigitSuffix(s) ==
    IF s = <<>> \/ ~IsDigit(s[Len(s)]) THEN <<>>
    ELSE Append(DigitSuffix(SubSeq(s, 1, Len(s) - 1)), s[Len(s)])

\* /\/\d+$/.test(url)
EndsWithIndex(url) ==
    /\ DigitSuffix(url) # <<>>
    /\ Len(url) > Len(DigitSuffix(url))
    /\ url[Len(url) - Len(DigitSuffix(url))] = "/"

patchRedisUrl(url, redisDb) ==
    IF EndsWithIndex(url)
        THEN SubSeq(url, 1, Len(url) - Len(DigitSuffix(url)) - 1)
                 \o <<"/">> \o String(redisDb)
        ELSE url \o <<"/">> \o String(redisDb)

\* the names every object inherits from Object.prototype, which the in
\* operator finds in any port map
ObjectPrototype == {"constructor", "toString", "valueOf", "hasOwnProperty"}

\* serviceName in ports
In(serviceName, ports) ==
    serviceName \in DOMAIN ports \/ serviceName \in ObjectPrototype

\* String(f) of an inherited function f
FunctionText == <<"f", "u", "n", "c", "t", "i", "o", "n">>

\* String(ports[serviceName]) when serviceName in ports
PortText(ports, serviceName) ==
    IF serviceName \in DOMAIN ports THEN String(ports[serviceName])
    ELSE FunctionText

\* serviceName && serviceName in context.ports
validService(patch, context) ==
    /\ "service" \in DOMAIN patch
    /\ patch.service # ""
    /\ In(patch.service, context.ports)

patchPort(patch, context) ==
    IF ~validService(patch, context)
        THEN [ok |-> FALSE, error |-> "Port patch requires a valid service name"]
        ELSE [ok |-> TRUE, value |-> PortText(context.ports, patch.service)]

\* value.replace(/:(\d+)/, `:${newPort}`): the first ":" that digits follow
RECURSIVE ReplaceFirstPort(_, _)
ReplaceFirstPort(value, newPort) ==
    IF value = <<>> THEN <<>>
    ELSE IF Head(value) = ":" /\ DigitPrefix(Tail(value)) # <<>>
        THEN <<":">> \o newPort
                 \o SubSeq(value, Len(DigitPrefix(Tail(value))) + 2, Len(value))
    ELSE <<Head(value)>> \o ReplaceFirstPort(Tail(value), newPort)

patchUrlPort(value, patch, context) ==
    IF ~validService(patch, context)
        THEN [ok |-> FALSE, error |-> "URL patch requires a valid service name"]
        ELSE [ok |-> TRUE,
              value |-> ReplaceFirstPort(value,
                            PortText(context.ports, patch.service))]

applyPatch(value, patch, context) ==
    CASE patch.type = "database" ->
             [ok |-> TRUE, value |-> patchDatabaseUrl(value, context.dbName)]
      [] patch.type = "redis" ->
             [ok |-> TRUE, value |-> patchRedisUrl(value, context.redisDb)]
      [] patch.type = "port" -> patchPort(patch, context)
      [] patch.type = "url" -> patchUrlPort(value, patch, context)

\* patchMap.has(varName), patchMap.get(varName): of the rules of one
\* variable the Map keeps the last
HasPatch(patches, varName) == \E i \in 1..Len(patches) : patches[i].var = varName

PatchOf(patches, varName) ==
    patches[CHOOSE i \in 1..Len(patches) :
                /\ patches[i].var = varName
                /\ \A j \in (i + 1)..Len(patches) : patches[j].var # varName]

\* `${varName}=${quote}${patched}${quote}`
Requote(match, patched) ==
    IF ~patched.ok THEN patched
    ELSE [ok |-> TRUE,
          line |-> match.varName \o <<"=">> \o QuoteOf(match.rawValue)
                       \o patched.value \o QuoteOf(match.rawValue),
          found |-> {match.varName}]

patchMatched(line, match, patches, context) ==
    IF ~match.matched \/ ~HasPatch(patches, match.varName)
        THEN [ok |-> TRUE, line |-> line, found |-> {}]
        ELSE Requote(match,
                     applyPatch(Unquote(match.rawValue),
                                PatchOf(patches, match.varName), context))

\* a callback that trims the lines it passes through
patchLineTrim(line, patches, context) ==
    patchMatched(Trim(line), matchAssignment(line), patches, context)

\* the callback of lines.map
patchLine(line, patches, context) ==
    patchMatched(line, matchAssignment(line), patches, context)

\* content.split('\n').map(...): the lines patched so far and the names
\* found, or the Error the callback threw
RECURSIVE patchLines(_, _, _, _, _)
PatchedLine(one, lines, patches, context, acc, found) ==
    IF ~one.ok THEN one
    ELSE patchLines(lines, patches, context, Append(acc, one.line),
                    found \cup one.found)

patchLines(lines, patches, context, acc, found) ==
    IF lines = <<>> THEN [ok |-> TRUE, lines |-> acc, found |-> found]
    ELSE PatchedLine(patchLine(Head(lines), patches, context), Tail(lines),
                     patches, context, acc, found)

\* the loop over patches that appends the port variables not found
RECURSIVE appendMissing(_, _, _, _)
appendMissing(patches, found, context, lines) ==
    IF patches = <<>> THEN lines
    ELSE appendMissing(Tail(patches), found, context,
             IF /\ Head(patches).var \notin found
                /\ Head(patches).type = "port"
                /\ validService(Head(patches), context)
                 THEN Append(lines,
                             Head(patches).var \o <<"=">>
                                 \o PortText(context.ports, Head(patches).service))
                 ELSE lines)

\* lines.join('\n')
RECURSIVE JoinLines(_)
JoinLines(lines) ==
    IF lines = <<>> THEN <<>>
    ELSE IF Len(lines) = 1 THEN Head(lines)
    ELSE Head(lines) \o <<"\n">> \o JoinLines(Tail(lines))

PatchedContent(mapped, patches, context) ==
    IF ~mapped.ok THEN mapped
    ELSE [ok |-> TRUE,
          value |-> JoinLines(appendMissing(patches, mapped.found, context,
                                            mapped.lines))]

patchEnvContent(content, patches, context) ==
    PatchedContent(patchLines(Split(content, "\n"), patches, context, <<>>, {}),
                   patches, context)

\* fs.writeFileSync(targetPath, patched): files maps the relative paths of
\* the files of a tree to their contents
WriteFile(files, source, content) ==
    [s \in DOMAIN files \cup {source} |->
        IF s = source THEN content ELSE files[s]]

\* the loop of copyAndPatchAllEnvFiles over config.envFiles: the files under
\* the worktree when it ends, and whether it ended by an Error
RECURSIVE copyAndPatchEnvFiles(_, _, _, _)
CopyPatched(patched, envFiles, mainFiles, worktreeFiles, context) ==
    IF ~patched.ok
        THEN [ok |-> FALSE, error |-> patched.error, files |-> worktreeFiles]
        ELSE copyAndPatchEnvFiles(Tail(envFiles), mainFiles,
                 WriteFile(worktreeFiles, Head(envFiles).source, patched.value),
                 context)

copyAndPatchEnvFiles(envFiles, mainFiles, worktreeFiles, context) ==
    IF envFiles = <<>> THEN [ok |-> TRUE, files |-> worktreeFiles]
    ELSE IF Head(envFiles).source \notin DOMAIN mainFiles
        THEN copyAndPatchEnvFiles(Tail(envFiles), mainFiles, worktreeFiles, context)
    ELSE CopyPatched(patchEnvContent(mainFiles[Head(envFiles).source],
                                     Head(envFiles).patches, context),
                     envFiles, mainFiles, worktreeFiles, context)

(***************************************************************************)
(* The env patcher's functions applied to drawn inputs.                    *)
(***************************************************************************)
MaxLines == 2        \* most lines of a drawn content
MaxPatches == 2      \* longest patch list drawn
MaxFiles == 2        \* longest config.envFiles drawn

\* the sequences over S of length 0..n
ListsOf(S, n) == UNION {[1..k -> S] : k \in 0..n}

\* the context new and setup build for a slot
ContextOf(slot) ==
    [dbName |-> calculateDbName(slot, config.baseDatabaseName),
     redisDb |-> slot,
     ports |-> calculatePorts(slot, config.services, config.portStride)]

Contexts == {ContextOf(slot) : slot \in 1..MaxSlots}

\* lines of a source env file: assignments bare and quoted, to variables
\* with and without a rule, and lines that are not assignments
EnvLines ==
    {<<"P", "=", "1">>,
     <<"P", "=", "\"", "h", ":", "1", "/", "a", "\"">>,
     <<"P", "=", "'", "r", ":", "2", "/", "0", "'">>,
     <<"P", "=", "x", "'", "'">>,
     <<"P", "=", "r", "/", "0", "\r">>,
     <<"Q", "=", "1">>,
     <<"p", "=", "1">>,
     <<" ", "P", "=", "1">>,
     <<"P">>,
     <<"#", "P", "=", "1">>,
     <<" ">>,
     <<>>}

Contents == {JoinLines(lines) : lines \in ListsOf(EnvLines, MaxLines)}

\* patches as patchSchema admits them: var any non-empty string, service
\* optional and any string
PatchRules ==
    {[var |-> <<"P">>, type |-> t, service |-> s] :
        t \in {"port", "url"}, s \in {"app", "server", "nosvc", "toString"}}
    \cup {[var |-> <<"P">>, type |-> t] :
              t \in {"port", "url", "redis", "database"}}
    \cup {[var |-> <<"p">>, type |-> "port", service |-> "app"]}

PatchArgs ==
    {[fn |-> "patchEnvContent", content |-> c, patches |-> ps, context |-> ctx] :
        c \in Contents, ps \in ListsOf(PatchRules, MaxPatches), ctx \in Contexts}

Sources == {".env", "api/.env"}

\* the patch lists of the drawn config.envFiles
FilePatches ==
    {<<>>,
     <<[var |-> <<"P">>, type |-> "port", service |-> "app"]>>,
     <<[var |-> <<"P">>, type |-> "port", service |-> "nosvc"]>>,
     <<[var |-> <<"P">>, type |-> "port", service |-> ""]>>,
     <<[var |-> <<"P">>, type |-> "port", service |-> "toString"]>>,
     <<[var |-> <<"P">>, type |-> "port"]>>,
     <<[var |-> <<"P">>, type |-> "port"], [var |-> <<"P">>, type |-> "redis"]>>}

EnvFiles == {[source |-> s, patches |-> ps] : s \in Sources, ps \in FilePatches}

\* the env files of the main worktree, and those already under the worktree
MainFiles ==
    UNION {[S -> {<<"P", "=", "1">>, <<"Q", "=", "1">>}] : S \in SUBSET Sources}

WorktreeFiles == {<<>>, [s \in {".env"} |-> <<"o", "l", "d">>]}

CopyArgs ==
    {[fn |-> "copyAndPatchAllEnvFiles", envFiles |-> fl, mainFiles |-> m,
      worktreeFiles |-> t, context |-> ContextOf(1)] :
        fl \in ListsOf(EnvFiles, MaxFiles), m \in MainFiles, t \in WorktreeFiles}

\* URL-shaped values: scheme://, then credentials, host and port, then a
\* path, then a query, each of the last four present or not
UrlPaths ==
    {<<>>, <<"/">>, <<"/", "d">>, <<"/", "a", "/", "d">>, <<"/", "d", "/">>}

UrlQueries == {<<>>, <<"?", "s", "=", "x">>, <<"?", "s", "=", "/", "x">>}

UrlArgs ==
    {[fn |-> "patchDatabaseUrl", scheme |-> <<"p", ":", "/", "/">>,
      userinfo |-> u, host |-> <<"h">>, port |-> p, path |-> pa, query |-> q,
      context |-> ctx] :
        u \in {<<>>, <<"u", ":", "w", "@">>}, p \in {<<>>, <<":", "5">>},
        pa \in UrlPaths, q \in UrlQueries, ctx \in Contexts}

\* scheme, credentials, host and port of a drawn value
Authority(url) == url.scheme \o url.userinfo \o url.host \o url.port

UrlOf(url) == Authority(url) \o url.path \o url.query

InitPatch ==
    /\ args \in PatchArgs \cup CopyArgs \cup UrlArgs
    /\ ret = [fn |-> "none"]
    /\ fs = EmptyFs
    /\ worktrees = <<>>
    /\ databases = {templateDatabase}
    /\ last = [cmd |-> "none"]
    /\ watch = {}
    /\ procs = <<>>
    /\ history = <<>>

\* patchEnvContent applied to an output of its own
Reapply(once, patches, context) ==
    IF once.ok THEN patchEnvContent(once.value, patches, context) ELSE once

\* patchEnvContent(content, patches, context), and patchEnvContent of that
PatchEnvContentCall ==
    /\ args.fn = "patchEnvContent"
    /\ ret.fn = "none"
    /\ ret' = [fn |-> "patchEnvContent",
               once |-> patchEnvContent(args.content, args.patches, args.context),
               twice |-> Reapply(patchEnvContent(args.content, args.patches,
                                                 args.context),
                                 args.patches, args.context)]
    /\ UNCHANGED <<args, world, last, watch, procs, history>>

CopyAndPatchCall ==
    /\ args.fn = "copyAndPatchAllEnvFiles"
    /\ ret.fn = "none"
    /\ ret' = [fn |-> "copyAndPatchAllEnvFiles",
               result |-> copyAndPatchEnvFiles(args.envFiles, args.mainFiles,
                                               args.worktreeFiles, args.context)]
    /\ UNCHANGED <<args, world, last, watch, procs, history>>

\* applyPatch(value, patch, context) of a database rule
PatchDatabaseUrlCall ==
    /\ args.fn = "patchDatabaseUrl"
    /\ ret.fn = "none"
    /\ ret' = [fn |-> "patchDatabaseUrl",
               result |-> applyPatch(UrlOf(args),
                                     [var |-> <<"D">>, type |-> "database"],
                                     args.context)]
    /\ UNCHANGED <<args, world, last, watch, procs, history>>

NextPatch ==
    \/ PatchEnvContentCall
    \/ CopyAndPatchCall
    \/ PatchDatabaseUrlCall

SpecPatch == InitPatch /\ [][NextPatch]_vars

(***************************************************************************)
(* Claims about the env patcher.                                           *)
(***************************************************************************)
\* a port rule whose service is missing, or is not a key of the port map
MissingService(patch, context) ==
    /\ patch.type = "port"
    /\ \/ "service" \notin DOMAIN patch
       \/ patch.service \notin DOMAIN context.ports

\* the configured files of the call that exist under the main worktree and
\* whose patch list holds such a rule
FilesMissingService ==
    {i \in 1..Len(args.envFiles) :
        /\ args.envFiles[i].source \in DOMAIN args.mainFiles
        /\ \E k \in 1..Len(args.envFiles[i].patches) :
               MissingService(args.envFiles[i].patches[k], args.context)}

\* the file at a relative path under a tree, NoFile when there is none
FileAt(files, source) == IF source \in DOMAIN files THEN files[source] ELSE NoFile

\* C18: a copyAndPatchAllEnvFiles call on a file whose patch list holds a
\* port rule whose service is missing or absent from the context's port map
\* fails with a patch error, and no output file is written for that file,
\* whether or not the rule's variable appears in the source file.
C18_MissingServiceFails ==
    (args.fn = "copyAndPatchAllEnvFiles" /\ ret.fn = "copyAndPatchAllEnvFiles")
        => \A i \in FilesMissingService :
               /\ ~ret.result.ok
               /\ FileAt(ret.result.files, args.envFiles[i].source)
                      = FileAt(args.worktreeFiles, args.envFiles[i].source)

\* the variable is assigned on a line of the content
Assigned(content, var) ==
    \E i \in 1..Len(Split(content, "\n")) :
        /\ matchAssignment(Split(content, "\n")[i]).matched
        /\ matchAssignment(Split(content, "\n")[i]).varName = var

\* the files of FilesMissingService, configured once, in which such a rule
\* is the last rule of its variable, the variable is assigned in the source
\* file, and the service is not a name that every object inherits
FilesMissingServiceApplied ==
    {i \in FilesMissingService :
        \E k \in 1..Len(args.envFiles[i].patches) :
            /\ \A j \in 1..(i - 1) :
                   args.envFiles[j].source # args.envFiles[i].source
            /\ MissingService(args.envFiles[i].patches[k], args.context)
            /\ \A j \in (k + 1)..Len(args.envFiles[i].patches) :
                   args.envFiles[i].patches[j].var # args.envFiles[i].patches[k].var
            /\ Assigned(args.mainFiles[args.envFiles[i].source],
                        args.envFiles[i].patches[k].var)
            /\ \/ "service" \notin DOMAIN args.envFiles[i].patches[k]
               \/ args.envFiles[i].patches[k].service \notin ObjectPrototype}

\* C18, for the rules that patchPort is called with: the call fails with the
\* patch error and the file under the worktree is as it was.
C18_AppliedMissingServiceFails ==
    (args.fn = "copyAndPatchAllEnvFiles" /\ ret.fn = "copyAndPatchAllEnvFiles")
        => \A i \in FilesMissingServiceApplied :
               /\ ~ret.result.ok
               /\ ret.result.error = "Port patch requires a valid service name"
               /\ FileAt(ret.result.files, args.envFiles[i].source)
                      = FileAt(args.worktreeFiles, args.envFiles[i].source)

\* a call with such a file that failed, an earlier file of the batch written
C18_WitnessApplied ==
    /\ args.fn = "copyAndPatchAllEnvFiles"
    /\ ret.fn = "copyAndPatchAllEnvFiles"
    /\ FilesMissingServiceApplied = {2}
    /\ ~ret.result.ok
    /\ DOMAIN ret.result.files = {args.envFiles[1].source}
    /\ args.worktreeFiles = <<>>

\* the rules C19 is about: port, url and redis rules whose service, when
\* the rule uses one, is a key of the port map
IdempotentRules(patches, context) ==
    \A k \in 1..Len(patches) :
        /\ patches[k].type \in {"port", "url", "redis"}
        /\ patches[k].type \in {"port", "url"} =>
               /\ "service" \in DOMAIN patches[k]
               /\ patches[k].service \in DOMAIN context.ports

\* C19: patchEnvContent is idempotent for port, url and redis rules: for
\* every content, every list of such rules (any variable names, services
\* present in the context) and every context, patching the patched content
\* again gives the patched content.
C19_Idempotent ==
    (/\ args.fn = "patchEnvContent"
     /\ ret.fn = "patchEnvContent"
     /\ IdempotentRules(args.patches, args.context))
        => ret.once.ok /\ ret.twice = ret.once

\* the variable names are UPPER_SNAKE names and no two rules share one
WellFormedVars(patches) ==
    /\ \A k \in 1..Len(patches) :
           /\ patches[k].var # <<>>
           /\ IsNameStart(Head(patches[k].var))
           /\ NameChars(patches[k].var) = patches[k].var
    /\ \A j, k \in 1..Len(patches) : patches[j].var = patches[k].var => j = k

\* no assignment's value ends in a quote that no quote opens
BalancedQuotes(content) ==
    \A i \in 1..Len(Split(content, "\n")) :
        matchAssignment(Split(content, "\n")[i]).matched =>
            \/ QuoteOf(matchAssignment(Split(content, "\n")[i]).rawValue) # <<>>
            \/ StripTrailingQuote(matchAssignment(Split(content, "\n")[i]).rawValue)
                   = matchAssignment(Split(content, "\n")[i]).rawValue

\* C19, for rule lists of distinct UPPER_SNAKE variables and contents whose
\* values have no unopened closing quote: patching again changes nothing.
C19_IdempotentWellFormed ==
    (/\ args.fn = "patchEnvContent"
     /\ ret.fn = "patchEnvContent"
     /\ IdempotentRules(args.patches, args.context)
     /\ WellFormedVars(args.patches)
     /\ BalancedQuotes(args.content))
        => ret.once.ok /\ ret.twice = ret.once

\* a line that is a comment, blank, malformed, or an assignment to a
\* variable with no registered rule
IsComment(line) == line # <<>> /\ Head(line) = "#"

IsBlank(line) == Trim(line) = <<>>

PassesThrough(line, patches) ==
    \/ IsComment(line)
    \/ IsBlank(line)
    \/ ~matchAssignment(line).matched
    \/ \A k \in 1..Len(patches) : patches[k].var # matchAssignment(line).varName

SourceLines == Split(args.content, "\n")

OutputLines == Split(ret.once.value, "\n")

\* C20: in the output of patchEnvContent every source line that is a
\* comment, blank, malformed, or an assignment to a variable with no
\* registered rule is unchanged character for character, and line i of the
\* output is line i of the input: the same line, or the assignment to the
\* same variable.
C20_LinesPreserved ==
    (args.fn = "patchEnvContent" /\ ret.fn = "patchEnvContent" /\ ret.once.ok)
        => /\ Len(OutputLines) >= Len(SourceLines)
           /\ \A i \in 1..Len(SourceLines) :
                  IF PassesThrough(SourceLines[i], args.patches)
                      THEN OutputLines[i] = SourceLines[i]
                      ELSE /\ matchAssignment(OutputLines[i]).matched
                           /\ matchAssignment(OutputLines[i]).varName
                                  = matchAssignment(SourceLines[i]).varName

\* a content of a malformed line with blanks and a patched assignment, with
\* a line appended for a port variable the content does not assign
C20_Witness ==
    /\ args.fn = "patchEnvContent"
    /\ ret.fn = "patchEnvContent"
    /\ ret.once.ok
    /\ Len(SourceLines) = 2
    /\ SourceLines[1] = <<" ", "P", "=", "1">>
    /\ OutputLines[1] = SourceLines[1]
    /\ ~PassesThrough(SourceLines[2], args.patches)
    /\ OutputLines[2] # SourceLines[2]
    /\ Len(OutputLines) = 3

\* the lines of the output after the source lines
AppendedLines ==
    SubSeq(OutputLines, Len(SourceLines) + 1, Len(OutputLines))

\* a port rule whose variable no source line assigns
IsAbsentPortRule(patch) ==
    patch.type = "port" /\ ~Assigned(args.content, patch.var)

AbsentPortRules == SelectSeq(args.patches, IsAbsentPortRule)

\* C21: for every port rule whose variable appears on no source line,
\* patchEnvContent appends exactly one NAME=<resolved port> line after all
\* source lines; it appends no line for a port rule whose variable is
\* present in the source, and none for database, redis or url rules: the
\* lines after the source lines are those of the absent port rules, one
\* each, in the order of the rules.
C21_PortLinesAppended ==
    (args.fn = "patchEnvContent" /\ ret.fn = "patchEnvContent" /\ ret.once.ok)
        => /\ Len(AppendedLines) = Len(AbsentPortRules)
           /\ \A i \in 1..Len(AbsentPortRules) :
                  /\ "service" \in DOMAIN AbsentPortRules[i]
                  /\ AbsentPortRules[i].service \in DOMAIN args.context.ports
                  /\ AppendedLines[i]
                         = AbsentPortRules[i].var \o <<"=">>
                               \o String(args.context.ports[AbsentPortRules[i].service])

\* every port rule names a service that is a key of the port map
PortServicesResolve(patches, context) ==
    \A k \in 1..Len(patches) :
        patches[k].type = "port" =>
            /\ "service" \in DOMAIN patches[k]
            /\ patches[k].service \in DOMAIN context.ports

\* C21, for rule lists whose port rules name a key of the port map: the
\* appended lines are those of the absent port rules, one each, in order.
C21_ResolvedPortLinesAppended ==
    (/\ args.fn = "patchEnvContent"
     /\ ret.fn = "patchEnvContent"
     /\ ret.once.ok
     /\ PortServicesResolve(args.patches, args.context))
        => /\ Len(AppendedLines) = Len(AbsentPortRules)
           /\ \A i \in 1..Len(AbsentPortRules) :
                  AppendedLines[i]
                      = AbsentPortRules[i].var \o <<"=">>
                            \o String(args.context.ports[AbsentPortRules[i].service])

\* a content that assigns Q, a redis rule and a port rule of P: one line
\* appended
C21_WitnessResolved ==
    /\ args.fn = "patchEnvContent"
    /\ ret.fn = "patchEnvContent"
    /\ ret.once.ok
    /\ args.content = <<"Q", "=", "1">>
    /\ Len(args.patches) = 2
    /\ args.patches[1].type = "redis"
    /\ PortServicesResolve(args.patches, args.context)
    /\ Len(AppendedLines) = 1

\* the path of a drawn value up to and with its final "/"
RECURSIVE UpToFinalSlash(_)
UpToFinalSlash(path) ==
    IF path = <<>> \/ path[Len(path)] = "/" THEN path
    ELSE UpToFinalSlash(SubSeq(path, 1, Len(path) - 1))

StartsWith(s, prefix) ==
    Len(s) >= Len(prefix) /\ SubSeq(s, 1, Len(prefix)) = prefix

EndsWith(s, suffix) ==
    Len(s) >= Len(suffix)
        /\ SubSeq(s, Len(s) - Len(suffix) + 1, Len(s)) = suffix

\* C22: the database rule replaces only the last path segment of a
\* URL-shaped value, the text between the final "/" and the query or the
\* end, with the database name; scheme, credentials, host, port and query
\* are unchanged, for every URL-shaped value, those without a path segment
\* included.
C22_DatabaseSegmentOnly ==
    (args.fn = "patchDatabaseUrl" /\ ret.fn = "patchDatabaseUrl")
        => /\ ret.result.ok
           /\ StartsWith(ret.result.value, Authority(args))
           /\ EndsWith(ret.result.value, args.query)
           /\ args.path # <<>> =>
                  ret.result.value
                      = Authority(args) \o UpToFinalSlash(args.path)
                            \o args.context.dbName \o args.query

\* C22, for the values whose path ends in a segment and whose query holds
\* no "/": the segment is replaced and the rest is as it was.
C22_DatabaseSegmentOfPath ==
    (/\ args.fn = "patchDatabaseUrl"
     /\ ret.fn = "patchDatabaseUrl"
     /\ args.path # <<>>
     /\ args.path[Len(args.path)] # "/"
     /\ \A i \in 1..Len(args.query) : args.query[i] # "/")
        => ret.result
               = [ok |-> TRUE,
                  value |-> Authority(args) \o UpToFinalSlash(args.path)
                                \o args.context.dbName \o args.query]

\* p://u:w@h:5/a/d?s=x becomes p://u:w@h:5/a/app_wt1?s=x
C22_WitnessPath ==
    /\ args.fn = "patchDatabaseUrl"
    /\ ret.fn = "patchDatabaseUrl"
    /\ args.userinfo # <<>>
    /\ args.port # <<>>
    /\ args.path = <<"/", "a", "/", "d">>
    /\ args.query = <<"?", "s", "=", "x">>
    /\ ret.result.value # UrlOf(args)

(***************************************************************************)
(* Claims about wt open, read off the recorded run.                        *)
(***************************************************************************)
\* the argument is a slot number: the decimal numeral of an integer
IsNumeral(text) == \E n \in 0..(MaxSlots + 2) : text = String(n)

\* the argument is the branchName of an allocation
IsAllocatedBranch(registry, text) ==
    \E k \in DOMAIN registry.allocations :
        registry.allocations[k].branchName = text

\* C23: open never modifies the persisted registry and never creates a
\* worktree or a database when its argument is a slot number (an empty slot
\* is a not-found failure with exit code 1) or the branchName of an
\* existing allocation; a new allocation is created only when the argument
\* is a branch name found in no allocation.
C23_OpenCreatesOnlyNewBranch ==
    last.cmd = "open" =>
        /\ (IsNumeral(last.slotOrBranch)
                \/ IsAllocatedBranch(RegistryBefore, last.slotOrBranch))
               => /\ theWorld = last.before
                  /\ ~last.created
        /\ (/\ IsNumeral(last.slotOrBranch)
            /\ last.slotOrBranch \notin DOMAIN RegistryBefore.allocations)
               => last.exitCode = 1 /\ last.error = "NOT_FOUND"
        /\ RegistryAfter # RegistryBefore
               => /\ ~IsNumeral(last.slotOrBranch)
                  /\ ~IsAllocatedBranch(RegistryBefore, last.slotOrBranch)
                  /\ \E k \in DOMAIN RegistryAfter.allocations :
                         /\ k \notin DOMAIN RegistryBefore.allocations
                         /\ RegistryAfter.allocations[k].branchName
                                = last.slotOrBranch

\* wt open 2 with slot 1 taken and slot 2 empty: not found, nothing created
C23_WitnessEmptySlot ==
    /\ last.cmd = "open"
    /\ last.slotOrBranch = String(2)
    /\ DOMAIN RegistryBefore.allocations = {String(1)}
    /\ last.exitCode = 1
    /\ theWorld = last.before

\* wt open of a branch no allocation has: an allocation is made for it
C23_WitnessCreated ==
    /\ last.cmd = "open"
    /\ last.created
    /\ last.exitCode = 0
    /\ DOMAIN RegistryBefore.allocations = {String(1)}
    /\ DOMAIN RegistryAfter.allocations = {String(1), String(2)}

(***************************************************************************)
(* Claims about wt doctor, read off the recorded run.                      *)
(***************************************************************************)
\* the keys of the registry the command found whose worktreePath is not on
\* disk
StaleKeys ==
    {k \in DOMAIN RegistryBefore.allocations :
        RegistryBefore.allocations[k].worktreePath
            \notin DOMAIN last.before.worktrees}

\* C24: after doctor --fix completes, the persisted registry holds exactly
\* the prior allocations whose worktreePath exists on disk: every stale
\* entry is removed and every other allocation is unchanged.
C24_FixRemovesStale ==
    (last.cmd = "doctor" /\ last.fix /\ last.exitCode = 0)
        => /\ fs[filePath].exists
           /\ DOMAIN RegistryAfter.allocations
                  = DOMAIN RegistryBefore.allocations \ StaleKeys
           /\ \A k \in DOMAIN RegistryAfter.allocations :
                  RegistryAfter.allocations[k] = RegistryBefore.allocations[k]

\* doctor --fix on a registry of a stale entry and an entry whose worktree
\* is on disk
C24_Witness ==
    /\ last.cmd = "doctor"
    /\ last.fix
    /\ last.exitCode = 0
    /\ DOMAIN RegistryBefore.allocations = {String(1), String(2)}
    /\ StaleKeys = {String(1)}
    /\ DOMAIN RegistryAfter.allocations = {String(2)}

\* C25: doctor run without --fix never writes the registry file and never
\* drops a database, whatever issues it finds.
C25_NoFixNoEffect ==
    (last.cmd = "doctor" /\ ~last.fix)
        => /\ fs = last.before.fs
           /\ databases = last.before.databases
           /\ worktrees = last.before.worktrees

\* the databases the command found that match <base>_wt* and are the
\* dbName of no allocation of a given registry
OrphansOf(registry, dbs) ==
    {d \in dbs :
        /\ Len(d) >= Len(config.baseDatabaseName) + 3
        /\ SubSeq(d, 1, Len(config.baseDatabaseName) + 3)
               = config.baseDatabaseName \o <<"_", "w", "t">>
        /\ \A k \in DOMAIN registry.allocations :
               registry.allocations[k].dbName # d}

\* doctor without --fix that found a stale entry and an orphaned database
C25_Witness ==
    /\ last.cmd = "doctor"
    /\ ~last.fix
    /\ last.exitCode = 0
    /\ StaleKeys # {}
    /\ OrphansOf(RegistryBefore, last.before.databases) # {}
    /\ \E i \in 1..Len(last.issues) : last.issues[i].type = "orphaned_db"

\* C30: after doctor --fix completes successfully no orphaned database
\* remains: every database whose name matches <base>_wt* is the dbName of
\* an allocation still in the persisted registry, also when the allocation
\* that owned it was removed as stale in the same run.
C30_FixLeavesNoOrphan ==
    (last.cmd = "doctor" /\ last.fix /\ last.exitCode = 0)
        => OrphansOf(RegistryAfter, databases) = {}

\* doctor --fix that removed a stale entry and dropped its database
C30_Witness ==
    /\ last.cmd = "doctor"
    /\ last.fix
    /\ last.exitCode = 0
    /\ StaleKeys # {}
    /\ OrphansOf(RegistryBefore, last.before.databases) = {}
    /\ \E k \in StaleKeys :
           /\ RegistryBefore.allocations[k].dbName \in last.before.databases
           /\ RegistryBefore.allocations[k].dbName \notin databases

(***************************************************************************)
(* Claims about the template database.                                     *)
(***************************************************************************)
\* the slots the recorded remove tried whose allocation records the
\* template database as its dbName
TemplateSlots ==
    {last.attempted[i] : i \in 1..Len(last.attempted)}
        \cap {s \in 0..(MaxSlots + 1) :
                 /\ String(s) \in DOMAIN RegistryBefore.allocations
                 /\ RegistryBefore.allocations[String(s)].dbName
                        = templateDatabase}

\* C26: no sequence of remove and doctor --fix commands drops the database
\* named baseDatabaseName: dropDatabase fails, and drops nothing, when the
\* target is the template, also when an allocation records the template
\* name as its dbName; the removal of such a slot fails and its entry stays.
C26_TemplateNeverDropped ==
    /\ templateDatabase \in databases
    /\ (last.cmd = "remove" /\ ~last.keepDb)
           => \A s \in TemplateSlots :
                  /\ s \notin RemovedSlots
                  /\ String(s) \in DOMAIN RegistryAfter.allocations
                  /\ last.exitCode = 1

\* wt remove 1 where slot 1 records the template as its database: the
\* removal failed and the template is there
C26_Witness ==
    /\ last.cmd = "remove"
    /\ ~last.keepDb
    /\ TemplateSlots = {1}
    /\ Len(last.failed) = 1
    /\ templateDatabase \in databases

(***************************************************************************)
(* Claims about the order of the steps of wt new and wt setup.             *)
(***************************************************************************)
\* the allocation the registry file holds for the slot of the recorded
\* command has its worktree on disk, its database created and every
\* configured env file written under the worktree
ResourcesReady ==
    /\ last.slot # null
    /\ String(last.slot) \in DOMAIN RegistryAfter.allocations
    /\ RegistryAfter.allocations[String(last.slot)].worktreePath
           \in DOMAIN worktrees
    /\ RegistryAfter.allocations[String(last.slot)].dbName
           = calculateDbName(last.slot, config.baseDatabaseName)
    /\ calculateDbName(last.slot, config.baseDatabaseName) \in databases
    /\ \A i \in 1..Len(config.envFiles) :
           config.envFiles[i].source \in
               worktrees[RegistryAfter.allocations[String(last.slot)]
                             .worktreePath].env

C27_WitnessSetup ==
    /\ last.cmd = "setup"
    /\ ~last.reused
    /\ last.error = "postSetup"
    /\ fs # last.before.fs
    /\ ResourcesReady

(***************************************************************************)
(* Claims about a batch of wt remove.                                      *)
(***************************************************************************)
\* the recorded remove reached its loop over the targets
LoopRan == last.cmd = "remove" /\ last.error \in {"", "REMOVE_PARTIAL"}

\* the slots whose removal the recorded remove tried and did not complete:
\* the database drop or the worktree removal threw
FailedSlots ==
    {last.attempted[i] : i \in 1..Len(last.attempted)} \ RemovedSlots

\* the targets the recorded remove reported as failed
FailedTargets == {last.failed[i] : i \in 1..Len(last.failed)}

ParsedTargets == parseRemoveTargets(last.rawTargets)

\* the slot a target stands for in the registry the command read, null when
\* it stands for none
SlotBefore(target) == resolveTarget(RegistryBefore, target).slot

\* the places in the batch of a target whose slot an earlier target of the
\* batch stands for as well
Duplicates ==
    {j \in 1..Len(ParsedTargets) :
        /\ SlotBefore(ParsedTargets[j]) # null
        /\ \E i \in 1..(j - 1) :
               SlotBefore(ParsedTargets[i]) = SlotBefore(ParsedTargets[j])}

\* no two allocations of the registry read have the same worktreePath, so
\* that a path stands for one slot whatever was removed before
UniquePaths ==
    \A k1, k2 \in DOMAIN RegistryBefore.allocations :
        k1 # k2 => RegistryBefore.allocations[k1].worktreePath
                       # RegistryBefore.allocations[k2].worktreePath

\* no slot is tried twice
AttemptedOnce ==
    \A i, j \in 1..Len(last.attempted) :
        i # j => last.attempted[i] # last.attempted[j]

\* C29 as stated: in a batch remove, a target that stands for a slot
\* processed earlier in the batch (the slot given twice, or once by number
\* and once by path) is skipped: the slot's database drop and worktree
\* removal are tried at most once, and the duplicate is added to neither
\* removed nor failed, so that removed and failed together hold one entry
\* for each target that is no duplicate.
C29_DuplicatesSkipped ==
    (LoopRan /\ ~last.all /\ UniquePaths) =>
        /\ AttemptedOnce
        /\ Len(last.removed) + Len(last.failed)
               = Len(ParsedTargets) - Cardinality(Duplicates)

\* What holds of duplicates: no slot is tried twice, and a duplicate is
\* passed over when the first try at its slot failed; the duplicate of a
\* slot that was removed is reported in failed.
C29_DuplicatesOfFailedSkipped ==
    (LoopRan /\ ~last.all /\ UniquePaths) =>
        /\ AttemptedOnce
        /\ Len(last.removed) + Len(last.failed)
               = Len(ParsedTargets)
                     - Cardinality({j \in Duplicates :
                           SlotBefore(ParsedTargets[j]) \notin RemovedSlots})

\* wt remove 1 1 where the removal of slot 1 failed: one entry in failed
C29_WitnessFailedFirst ==
    /\ LoopRan
    /\ ~last.all
    /\ UniquePaths
    /\ ParsedTargets = <<String(1), String(1)>>
    /\ last.attempted = <<1>>
    /\ last.removed = <<>>
    /\ Len(last.failed) = 1

\* wt remove 1 1 where slot 1 was removed: the second 1 is in failed
C29_WitnessRemovedFirst ==
    /\ LoopRan
    /\ ~last.all
    /\ UniquePaths
    /\ ParsedTargets = <<String(1), String(1)>>
    /\ RemovedSlots = {1}
    /\ last.failed = <<String(1)>>
    /\ last.exitCode = 1

====
